---- MODULE Spec2Model ----
(***************************************************************************)
(* Orbit animation engine of bevy_panorbit_camera_ext: one camera entity   *)
(* carrying a PanOrbitCamera and, at times, a CameraMoveList, a            *)
(* SmoothnessStash, a ZoomAnimationMarker and a CurrentFitTarget.          *)
(*                                                                         *)
(* Angles are integers in units of pi/4 rad (PI = 4, TAU = 8), lengths and *)
(* smoothness values are integers, times are integer milliseconds.  An     *)
(* interpolation factor is an exact fraction <<num, den>>; a product with  *)
(* it is rounded down to the unit, as an f32 product is rounded to the     *)
(* nearest representable value.                                            *)
(***************************************************************************)
EXTENDS Integers, Sequences, FiniteSets, TLC

\* Host operations (requests, direct insertions, edits) in one behaviour.
MaxHostOps == 2

\* The largest yaw or pitch, in units of pi/4, of a start pose or a target.
MaxAngle == 7

\* std::f32::consts::PI and TAU in units of pi/4.
PI == 4
TAU == 2 * PI

Zero3 == <<0, 0, 0>>

Abs(x) == IF x < 0 THEN -x ELSE x

----------------------------------------------------------------------------
(* CameraMove and its accessors.                                           *)

ToOrbit(f, y, p, r, d, e) ==
    [kind |-> "ToOrbit", translation |-> Zero3, focus |-> f, yaw |-> y,
     pitch |-> p, radius |-> r, duration_ms |-> d, easing |-> e]

ToPosition(tr, f, d, e) ==
    [kind |-> "ToPosition", translation |-> tr, focus |-> f, yaw |-> 0,
     pitch |-> 0, radius |-> 0, duration_ms |-> d, easing |-> e]

\* f32::atan2(y, x) on the directions the moves below use: along an axis or
\* along a diagonal.  atan2(0, 0) is 0.
Atan2(y, x) ==
    CASE y = 0 /\ x >= 0 -> 0
      [] y = 0 /\ x < 0 -> PI
      [] x = 0 /\ y > 0 -> PI \div 2
      [] x = 0 /\ y < 0 -> -(PI \div 2)
      [] x > 0 /\ y = x -> PI \div 4
      [] x > 0 /\ y = -x -> -(PI \div 4)
      [] x < 0 /\ y = -x -> 3 * (PI \div 4)
      [] x < 0 /\ y = x -> -3 * (PI \div 4)

\* f32::hypot and Vec3::length, exact when at most one component is not 0.
Hypot(x, z) == Abs(x) + Abs(z)

Length3(v) == Abs(v[1]) + Abs(v[2]) + Abs(v[3])

\* orbital_params with yaw and pitch returned in the wrong order.
OrbitalParamsSwapped(m) ==
    IF m.kind = "ToPosition"
    THEN LET offset == <<m.translation[1] - m.focus[1],
                         m.translation[2] - m.focus[2],
                         m.translation[3] - m.focus[3]>>
         IN  <<Atan2(offset[2], Hypot(offset[1], offset[3])),
               Atan2(offset[1], offset[3]), Length3(offset)>>
    ELSE <<m.pitch, m.yaw, m.radius>>

\* orbital_params decomposing a ToOrbit move from the position it stands for:
\* straight above or below the focus the offset has no x and no z, and the
\* yaw is atan2(0, 0).
OrbitalParamsDecomposed(m) ==
    IF m.kind = "ToPosition"
    THEN LET offset == <<m.translation[1] - m.focus[1],
                         m.translation[2] - m.focus[2],
                         m.translation[3] - m.focus[3]>>
         IN  <<Atan2(offset[1], offset[3]),
               Atan2(offset[2], Hypot(offset[1], offset[3])), Length3(offset)>>
    ELSE <<IF Abs(m.pitch) = PI \div 2 THEN Atan2(0, 0) ELSE m.yaw, m.pitch,
           m.radius>>

\* CameraMove::orbital_params: (yaw, pitch, radius).
OrbitalParams(m) ==
    IF m.kind = "ToPosition"
    THEN LET offset == <<m.translation[1] - m.focus[1],
                         m.translation[2] - m.focus[2],
                         m.translation[3] - m.focus[3]>>
             radius == Length3(offset)
             yaw == Atan2(offset[1], offset[3])
             horizontal_dist == Hypot(offset[1], offset[3])
             pitch == Atan2(offset[2], horizontal_dist)
         IN  <<yaw, pitch, radius>>
    ELSE <<m.yaw, m.pitch, m.radius>>

\* EaseFunction::sample_unchecked on t = n/d with 0 <= n <= d, as a fraction.
Ease(easing, t) ==
    CASE easing = "Linear" -> t
      [] easing = "QuadraticIn" -> <<t[1] * t[1], t[2] * t[2]>>

\* a.mul_add(t, b) for a factor t = <<num, den>>.
MulAdd(a, t, b) == b + ((a * t[1]) \div t[2])

\* Vec3::lerp.
Lerp(a, b, t) ==
    <<MulAdd(b[1] - a[1], t, a[1]), MulAdd(b[2] - a[2], t, a[2]),
      MulAdd(b[3] - a[3], t, a[3])>>

\* (elapsed_ms / duration_ms).min(1.0); x/0 is +inf or NaN, and both give 1.
Factor(elapsed_ms, duration_ms) ==
    IF elapsed_ms >= duration_ms THEN <<1, 1>> ELSE <<elapsed_ms, duration_ms>>

\* The wrap without the half-turn offset: floor(d / TAU) turns taken off.
WrapYawNoOffset(yaw_diff) == yaw_diff - TAU * (yaw_diff \div TAU)

\* No wrap at all: the raw difference.
WrapYawNone(yaw_diff) == yaw_diff

\* The yaw difference wrapped by TAU * floor((d + PI) / TAU).
WrapYaw(yaw_diff) == yaw_diff - TAU * ((yaw_diff + PI) \div TAU)

\* The pitch adjustment without its second branch.
PitchTargetOneWay(canonical_pitch, start_pitch) ==
    IF canonical_pitch - start_pitch > PI THEN canonical_pitch - TAU
    ELSE canonical_pitch

\* The target pitch moved by one turn when the raw difference exceeds PI.
PitchTarget(canonical_pitch, start_pitch) ==
    LET pitch_diff_raw == canonical_pitch - start_pitch
    IN  IF pitch_diff_raw > PI THEN canonical_pitch - TAU
        ELSE IF pitch_diff_raw < -PI THEN canonical_pitch + TAU
        ELSE canonical_pitch

----------------------------------------------------------------------------
(* The inputs the host chooses from.                                       *)

\* Time::delta_secs() * 1000 of one frame.
Deltas == {50, 100}

FocusA == <<4, 0, 0>>
FocusB == <<0, 4, -4>>

OrbitA == ToOrbit(FocusA, 3, 1, 8, 100, "Linear")
OrbitB == ToOrbit(FocusB, -3, -1, 4, 100, "QuadraticIn")
OrbitC == ToOrbit(Zero3, 6, 2, 6, 100, "Linear")
PositionD == ToPosition(<<0, 6, 0>>, Zero3, 50, "Linear")

\* The move sequences a PlayAnimation or a direct insertion carries.
Plans == {<<OrbitA>>, <<PositionD, OrbitB>>, <<OrbitA, OrbitB, OrbitC>>}

\* ZoomToFit events: target entity, margin in percent, duration and easing.
ZoomRequests ==
    {[target |-> 1, margin |-> 10, duration_ms |-> 100, easing |-> "Linear"],
     [target |-> 2, margin |-> 25, duration_ms |-> 0, easing |-> "QuadraticIn"]}

\* What extract_mesh_vertices and calculate_fit return to on_zoom_to_fit.
FitOutcomes ==
    {[vertices |-> FALSE, fit |-> FALSE, radius |-> 0, focus |-> Zero3],
     [vertices |-> TRUE, fit |-> FALSE, radius |-> 0, focus |-> Zero3],
     [vertices |-> TRUE, fit |-> TRUE, radius |-> 5, focus |-> <<1, 1, 0>>]}

\* Poses the host writes into the camera between frames.
HostPoses ==
    {[focus |-> <<2, 2, 2>>, yaw |-> -2, pitch |-> 3, radius |-> 2]}

\* Yaw and pitch values, in units of pi/4, of the start poses and the targets
\* the interpolation is studied on.
Angles == -MaxAngle..MaxAngle

Easings == {"Linear", "QuadraticIn"}

\* Moves to the point 6 above the origin with every yaw, moves with every
\* pitch, and the ToPosition form of the point 6 above the origin.
AngleMoves ==
    {ToOrbit(Zero3, y, PI \div 2, 6, 100, e) : y \in Angles, e \in Easings}
        \cup {ToOrbit(Zero3, 0, p, 6, 100, e) : p \in Angles, e \in Easings}
        \cup {PositionD}

----------------------------------------------------------------------------
(* Projection and screen-space bounds (support.rs, fit.rs).  A length is   *)
(* an integer in units of 1/2000 world unit, which makes the 0.001 of the  *)
(* convergence test 2 units; normalized screen coordinates and tangents    *)
(* are scaled by Unit as well, and a quotient is rounded down to the unit. *)
(* INFINITY and NAN stand for the f32 values +inf and NaN.  The camera     *)
(* looks down -Z: calculate_fit is called with yaw 0 and pitch 0.          *)

\* The 0.001 world units of the convergence test.
ConvergenceWidth == 2

Unit == 1000 * ConvergenceWidth

MIN_VISIBLE_DEPTH == Unit \div 10

MAX_ITERATIONS == 200

CENTERING_MAX_ITERATIONS == 10

\* 0.0001, as a fraction of 1.0.
CENTERING_TOLERANCE == <<1, 10000>>

INFINITY == 1000000000

NAN == -2 * INFINITY

None == [some |-> FALSE]

Some(v) == [some |-> TRUE, value |-> v]

\* f32 arithmetic on finite values, +inf, -inf and NaN.
IsFinite(a) == a # NAN /\ a # INFINITY /\ a # -INFINITY

XNeg(a) == IF a = NAN THEN NAN ELSE -a

XAdd(a, b) ==
    IF a = NAN \/ b = NAN THEN NAN
    ELSE IF IsFinite(a) /\ IsFinite(b) THEN a + b
    ELSE IF IsFinite(b) THEN a
    ELSE IF IsFinite(a) THEN b
    ELSE IF a = b THEN a
    ELSE NAN

XSub(a, b) == XAdd(a, XNeg(b))

XMul(a, b) == IF a = NAN \/ b = NAN THEN NAN ELSE a * b

\* a < b: false when either is NaN.
XLt(a, b) == a # NAN /\ b # NAN /\ a < b

XAbs(a) == IF a = NAN THEN NAN ELSE Abs(a)

\* f32::min: the other operand when one is NaN.
XMin(a, b) ==
    IF a = NAN THEN b ELSE IF b = NAN THEN a ELSE IF a < b THEN a ELSE b

\* a * 0.5
XHalf(a) == IF IsFinite(a) THEN a \div 2 ELSE a

Dot(a, b) == a[1] * b[1] + a[2] * b[2] + a[3] * b[3]

Sub3(a, b) == <<a[1] - b[1], a[2] - b[2], a[3] - b[3]>>

\* Vec3::length, the square root rounded down to the unit.
Length(v) ==
    CHOOSE r \in 0..(Abs(v[1]) + Abs(v[2]) + Abs(v[3])) :
        r * r <= Dot(v, v) /\ Dot(v, v) < (r + 1) * (r + 1)

\* The element of a set of one: the value of an expression, worked out
\* once for every use of it.
The(S) == CHOOSE r \in S : TRUE

\* rot * Vec3::X, rot * Vec3::Y, rot * Vec3::NEG_Z and rot * Vec3::Z for
\* rot = Quat::from_euler(EulerRot::YXZ, 0, -0, 0).
CamRight == <<1, 0, 0>>

CamUp == <<0, 1, 0>>

CamForward == <<0, 0, -1>>

CamBack == <<0, 0, 1>>

\* project_point failing on a small depth under either projection.
ProjectPointStrict(point, cam_pos, cam_right, cam_up, cam_forward, is_ortho) ==
    LET relative == Sub3(point, cam_pos)
        depth == Dot(relative, cam_forward)
        x == Dot(relative, cam_right)
        y == Dot(relative, cam_up)
    IN  IF depth <= MIN_VISIBLE_DEPTH THEN None
        ELSE IF is_ortho THEN Some(<<x, y, depth>>)
        ELSE Some(<<(x * Unit) \div depth, (y * Unit) \div depth, depth>>)

\* project_point: (norm_x, norm_y, depth) or None.
ProjectPoint(point, cam_pos, cam_right, cam_up, cam_forward, is_ortho) ==
    LET relative == Sub3(point, cam_pos)
        depth == Dot(relative, cam_forward)
        x == Dot(relative, cam_right)
        y == Dot(relative, cam_up)
    IN  IF ~is_ortho /\ depth <= MIN_VISIBLE_DEPTH THEN None
        ELSE IF is_ortho THEN Some(<<x, y, depth>>)
        ELSE Some(<<(x * Unit) \div depth, (y * Unit) \div depth, depth>>)

\* ProjectionParams::from_projection: (half_extent_x, half_extent_y,
\* is_ortho) for a viewport aspect given as the fraction <<w, h>>.
ProjectionParams(projection, viewport_aspect) ==
    CASE projection.kind = "Perspective" ->
             Some(<<(projection.half_tan_vfov * viewport_aspect[1])
                        \div viewport_aspect[2],
                    projection.half_tan_vfov, FALSE>>)
      [] projection.kind = "Orthographic" ->
             Some(<<(projection.area.max_x - projection.area.min_x) \div 2,
                    (projection.area.max_y - projection.area.min_y) \div 2,
                    TRUE>>)
      [] OTHER -> None

\* projection_aspect_ratio, as a fraction <<w, h>>.
ProjectionAspectRatio(projection, viewport_size) ==
    CASE projection.kind = "Perspective" ->
             IF viewport_size.some THEN Some(viewport_size.value)
             ELSE Some(projection.aspect_ratio)
      [] projection.kind = "Orthographic" ->
             IF projection.area.max_y - projection.area.min_y = 0 THEN None
             ELSE Some(<<projection.area.max_x - projection.area.min_x,
                         projection.area.max_y - projection.area.min_y>>)
      [] OTHER -> None

\* zoom_margin_multiplier for a margin in percent: 1 / (1 - margin), as the
\* fraction <<100, 100 - margin>>.
ZoomMarginMultiplier(margin) == <<100, 100 - margin>>

\* x / m for a multiplier m = <<num, den>>.
DivBy(x, m) == (x * m[2]) \div m[1]

\* 2 * a * b / (a + b); 0 / 0 is NaN.
HarmonicMean(a, b) == IF a + b = 0 THEN NAN ELSE (2 * a * b) \div (a + b)

\* The running extremes from_points starts its loop with.
NoExtremes ==
    [min_norm_x |-> INFINITY, max_norm_x |-> -INFINITY,
     min_norm_y |-> INFINITY, max_norm_y |-> -INFINITY,
     min_x_depth |-> 0, max_x_depth |-> 0, min_y_depth |-> 0,
     max_y_depth |-> 0]

\* The extremes e after a point at (norm_x, depth), and at (norm_y, depth).
TrackX(e, norm_x, depth) ==
    LET e1 == IF norm_x < e.min_norm_x
              THEN [e EXCEPT !.min_norm_x = norm_x, !.min_x_depth = depth]
              ELSE e
    IN  IF norm_x > e1.max_norm_x
        THEN [e1 EXCEPT !.max_norm_x = norm_x, !.max_x_depth = depth]
        ELSE e1

TrackY(e, norm_y, depth) ==
    LET e1 == IF norm_y < e.min_norm_y
              THEN [e EXCEPT !.min_norm_y = norm_y, !.min_y_depth = depth]
              ELSE e
    IN  IF norm_y > e1.max_norm_y
        THEN [e1 EXCEPT !.max_norm_y = norm_y, !.max_y_depth = depth]
        ELSE e1

\* The loop of from_points over points[i..]: the extremes, or None at the
\* first point project_point refuses.
RECURSIVE Extremes(_, _, _, _, _)
Extremes(points, i, cam_pos, is_ortho, e) ==
    IF i > Len(points) THEN Some(e)
    ELSE The({IF ~p.some THEN None
              ELSE The({Extremes(points, i + 1, cam_pos, is_ortho, next) :
                        next \in {TrackY(TrackX(e, p.value[1], p.value[3]),
                                         p.value[2], p.value[3])}}) :
              p \in {ProjectPoint(points[i], cam_pos, CamRight, CamUp,
                                  CamForward, is_ortho)}})

\* from_points after its loop: the margins, targets and centering depths
\* for the extremes e.
BoundsOf(e, half_extent_x, half_extent_y, is_ortho, zoom_multiplier) ==
    LET span_x == XSub(e.max_norm_x, e.min_norm_x)
        span_y == XSub(e.max_norm_y, e.min_norm_y)
        \* boundary_aspect = span_x / span_y is NaN for inf / inf and 0 / 0,
        \* screen_aspect = half_extent_x / half_extent_y for 0 / 0.
        boundary_nan ==
            ~IsFinite(span_x) \/ ~IsFinite(span_y) \/ (span_x = 0 /\ span_y = 0)
        screen_nan == half_extent_x = 0 /\ half_extent_y = 0
        width_constrains ==
            /\ ~boundary_nan
            /\ ~screen_nan
            /\ span_x * half_extent_y > half_extent_x * span_y
        target_x_wide == DivBy(half_extent_x, zoom_multiplier)
        target_y_tall == DivBy(half_extent_y, zoom_multiplier)
        target_edge_x ==
            IF width_constrains THEN target_x_wide
            ELSE IF boundary_nan THEN NAN
            ELSE IF span_y = 0
            THEN IF target_y_tall = 0 THEN NAN ELSE INFINITY
            ELSE (target_y_tall * span_x) \div span_y
        target_edge_y ==
            IF width_constrains THEN (target_x_wide * span_y) \div span_x
            ELSE target_y_tall
    IN  [left_margin |-> XAdd(e.min_norm_x, half_extent_x),
         right_margin |-> XSub(half_extent_x, e.max_norm_x),
         top_margin |-> XSub(half_extent_y, e.max_norm_y),
         bottom_margin |-> XAdd(e.min_norm_y, half_extent_y),
         target_margin_x |-> XSub(half_extent_x, target_edge_x),
         target_margin_y |-> XSub(half_extent_y, target_edge_y),
         min_norm_x |-> e.min_norm_x, max_norm_x |-> e.max_norm_x,
         min_norm_y |-> e.min_norm_y, max_norm_y |-> e.max_norm_y,
         centering_depth_x |->
             IF is_ortho THEN Unit
             ELSE HarmonicMean(e.min_x_depth, e.max_x_depth),
         centering_depth_y |->
             IF is_ortho THEN Unit
             ELSE HarmonicMean(e.min_y_depth, e.max_y_depth),
         half_extent_x |-> half_extent_x, half_extent_y |-> half_extent_y]

\* ScreenSpaceBounds::from_points for a camera at cam_pos looking down -Z.
FromPoints(points, cam_pos, projection, viewport_aspect, zoom_multiplier) ==
    LET params == ProjectionParams(projection, viewport_aspect)
    IN  IF ~params.some THEN None
        ELSE The({IF ~e.some THEN None
                  ELSE Some(BoundsOf(e.value, params.value[1],
                                     params.value[2], params.value[3],
                                     zoom_multiplier)) :
                  e \in {Extremes(points, 1, cam_pos, params.value[3],
                                  NoExtremes)}})

\* ScreenSpaceBounds::center
Center(bounds) ==
    <<XHalf(XAdd(bounds.min_norm_x, bounds.max_norm_x)),
      XHalf(XAdd(bounds.min_norm_y, bounds.max_norm_y))>>

\* build_test_projection
BuildTestProjection(projection, test_radius) ==
    IF projection.kind = "Orthographic"
    THEN LET current_scale == projection.scale
             area == projection.area
         IN  IF Abs(current_scale) > 0
             THEN [projection EXCEPT
                     !.scale = test_radius,
                     !.area =
                         [min_x |-> (area.min_x * test_radius)
                                        \div current_scale,
                          min_y |-> (area.min_y * test_radius)
                                        \div current_scale,
                          max_x |-> (area.max_x * test_radius)
                                        \div current_scale,
                          max_y |-> (area.max_y * test_radius)
                                        \div current_scale]]
             ELSE [projection EXCEPT !.scale = test_radius]
    ELSE projection

\* focus + rot * Vec3::new(0.0, 0.0, cam_distance)
CamPosition(focus, cam_distance) ==
    <<XAdd(focus[1], CamBack[1] * cam_distance),
      XAdd(focus[2], CamBack[2] * cam_distance),
      XAdd(focus[3], CamBack[3] * cam_distance)>>

\* focus + cam_right * cx * centering_depth_x + cam_up * cy * centering_depth_y
ShiftedFocus(focus, bounds) ==
    LET cx == Center(bounds)[1]
        cy == Center(bounds)[2]
        sx == IF cx = NAN \/ bounds.centering_depth_x = NAN THEN NAN
              ELSE (cx * bounds.centering_depth_x) \div Unit
        sy == IF cy = NAN \/ bounds.centering_depth_y = NAN THEN NAN
              ELSE (cy * bounds.centering_depth_y) \div Unit
    IN  <<XAdd(XAdd(focus[1], XMul(CamRight[1], sx)), XMul(CamUp[1], sy)),
          XAdd(XAdd(focus[2], XMul(CamRight[2], sx)), XMul(CamUp[2], sy)),
          XAdd(XAdd(focus[3], XMul(CamRight[3], sx)), XMul(CamUp[3], sy))>>

\* c.abs() < tolerance, for a tolerance given as a fraction of 1.0.
Below(c, tolerance) ==
    c # NAN /\ Abs(c) * tolerance[2] < Unit * tolerance[1]

\* The best-seen triple (error, radius, focus) replaced by every candidate.
BestAfterLatest(best, candidate) == candidate

\* The best-seen triple (error, radius, focus) after a valid iteration.
BestAfter(best, candidate) ==
    IF XLt(candidate[1], best[1]) THEN candidate ELSE best

\* Vertex lists: none, one vertex at the centre, the corners of a cube of
\* side 0.1, three vertices off to one side, two vertices 0.001 apart, and
\* two vertices on the view axis.
Cube ==
    <<<<-100, -100, -100>>, <<100, -100, -100>>, <<-100, 100, -100>>,
      <<100, 100, -100>>, <<-100, -100, 100>>, <<100, -100, 100>>,
      <<-100, 100, 100>>, <<100, 100, 100>>>>

Skewed == <<<<0, 0, 0>>, <<160, 0, -120>>, <<0, 80, 0>>>>

Speck == <<<<1, 0, 0>>, <<-1, 0, 0>>>>

AxisPair == <<<<0, 0, 100>>, <<0, 0, -100>>>>

FitPoints == {<<>>, <<Zero3>>, Cube, Skewed, Speck, AxisPair}

NoArea == [min_x |-> 0, min_y |-> 0, max_x |-> 0, max_y |-> 0]

\* Projections: a 90 degree and an 11 degree perspective, an orthographic
\* one 2 x 1 at scale 1 with the camera 0.1 from the focus, an orthographic
\* one whose area has no height, and a custom one.
PerspectiveWide ==
    [kind |-> "Perspective", half_tan_vfov |-> Unit, aspect_ratio |-> <<1, 1>>,
     scale |-> 0, area |-> NoArea, near |-> 0, far |-> 0]

PerspectiveNarrow ==
    [kind |-> "Perspective", half_tan_vfov |-> Unit \div 10,
     aspect_ratio |-> <<1, 2>>, scale |-> 0, area |-> NoArea, near |-> 0,
     far |-> 0]

Orthographic ==
    [kind |-> "Orthographic", half_tan_vfov |-> 0, aspect_ratio |-> <<1, 1>>,
     scale |-> Unit,
     area |-> [min_x |-> -Unit, min_y |-> -(Unit \div 2), max_x |-> Unit,
               max_y |-> Unit \div 2],
     near |-> 0, far |-> Unit \div 5]

OrthographicFlat ==
    [Orthographic EXCEPT
       !.area = [min_x |-> -Unit, min_y |-> 0, max_x |-> Unit, max_y |-> 0]]

Custom ==
    [kind |-> "Custom", half_tan_vfov |-> 0, aspect_ratio |-> <<1, 1>>,
     scale |-> 0, area |-> NoArea, near |-> 0, far |-> 0]

\* A projection with what Camera::logical_viewport_size gives.
FitViews ==
    {<<PerspectiveWide, Some(<<2, 1>>)>>, <<PerspectiveNarrow, None>>,
     <<Orthographic, Some(<<2, 1>>)>>, <<OrthographicFlat, Some(<<2, 1>>)>>,
     <<Custom, None>>}

\* Margins in percent, those of ZoomRequests.
FitMargins == {z.margin : z \in ZoomRequests}

\* No call of calculate_fit.
NoCalc ==
    [pc |-> "idle", points |-> <<>>, geometric_center |-> Zero3, margin |-> 0,
     projection |-> Custom, viewport_size |-> None, aspect_ratio |-> None,
     ortho_fixed_distance |-> None, object_radius |-> 0, min_radius |-> 0,
     max_radius |-> 0, best_radius |-> 0, best_focus |-> Zero3,
     best_error |-> INFINITY, iteration |-> 0, test_radius |-> 0,
     focus |-> Zero3, centering_iteration |-> 0, result |-> None]

----------------------------------------------------------------------------
(* Components of the camera entity.                                        *)

VARIABLES
    cam,          \* PanOrbitCamera: target pose and the three smoothness values
    force_update, \* PanOrbitCamera::force_update as the latest frame left it
    hasList,      \* the entity has a CameraMoveList
    moves,        \* CameraMoveList::moves
    state,        \* CameraMoveList::state
    stash,        \* SmoothnessStash, if any
    marker,       \* ZoomAnimationMarker, if any
    fit_target,   \* CurrentFitTarget, 0 if none
    events,       \* every event triggered so far, in order
    ops,          \* host operations so far
    req,          \* the latest request: its kind, its moves or its ZoomToFit,
                  \* and, right before it, the smoothness, whether there was
                  \* a SmoothnessStash, and the length of events
    edited,       \* the host cleared the queue or moved the camera since the
                  \* CameraMoveList was inserted
    nticks,       \* frames that found the CameraMoveList since it was inserted
    completions,  \* AnimationEnd and ZoomEnd events process_camera_move_list
                  \* triggered since the CameraMoveList was inserted
    calc,         \* a call of calculate_fit: its arguments, its locals, the
                  \* place it has reached and what it returned
    tried,        \* the outer iterations of that call, in order
    cam_view,     \* the camera's Projection and what
                  \* Camera::logical_viewport_size gives
    zoom_config,  \* the ZoomConfig resource
    zoom_state    \* ZoomToFitComponent, if any; once it is removed, the
                  \* iteration_count it was removed with

vars == <<cam, force_update, hasList, moves, state, stash, marker, fit_target,
          events, ops, req, edited, nticks, completions, calc, tried,
          cam_view, zoom_config, zoom_state>>

zoomVars == <<cam_view, zoom_config, zoom_state>>

\* ZoomConfig::default(), with margin in percent, margin_tolerance as a
\* fraction of 1.0 and convergence_rate as a fraction.
ZoomConfigDefault ==
    [max_iterations |-> 200, margin |-> 10, margin_tolerance |-> <<1, 100000>>,
     convergence_rate |-> <<3, 10>>]

NoZoomToFit ==
    [present |-> FALSE, target_corners |-> <<>>, iteration_count |-> 0]

\* No ZoomToFitComponent on the camera.
ZoomIdle ==
    /\ cam_view = <<PerspectiveWide, None>>
    /\ zoom_config = ZoomConfigDefault
    /\ zoom_state = NoZoomToFit

Ready ==
    [kind |-> "Ready", elapsed_ms |-> 0, start_focus |-> Zero3,
     start_pitch |-> 0, start_radius |-> 0, start_yaw |-> 0]

NoStash == [present |-> FALSE, zoom |-> 0, pan |-> 0, orbit |-> 0]

NoMarker ==
    [present |-> FALSE, target_entity |-> 0, margin |-> 0, duration_ms |-> 0,
     easing |-> "Linear"]

NoZoom == [target |-> 0, margin |-> 0, duration_ms |-> 0, easing |-> "Linear"]

NoRequest ==
    [kind |-> "none", plan |-> <<>>, zoom |-> NoZoom, listed |-> FALSE,
     before |-> <<0, 0, 0>>, stashed |-> FALSE, mark |-> 0]

Smoothness(c) == <<c.zoom_smoothness, c.pan_smoothness, c.orbit_smoothness>>

Pose(c) == <<c.target_focus, c.target_yaw, c.target_pitch, c.target_radius>>

\* The camera entity as it is spawned: no component of this crate on it.
CameraInit ==
    /\ cam = [target_focus |-> Zero3, target_yaw |-> 0, target_pitch |-> 0,
              target_radius |-> 2, zoom_smoothness |-> 1,
              pan_smoothness |-> 2, orbit_smoothness |-> 3]
    /\ force_update = FALSE
    /\ hasList = FALSE
    /\ moves = <<>>
    /\ state = Ready
    /\ stash = NoStash
    /\ marker = NoMarker
    /\ fit_target = 0
    /\ events = <<>>
    /\ ops = 0
    /\ req = NoRequest
    /\ edited = FALSE
    /\ nticks = 0
    /\ completions = 0
    /\ ZoomIdle

\* No call of calculate_fit is under way.
Init == CameraInit /\ calc = NoCalc /\ tried = <<>>

----------------------------------------------------------------------------
(* process_camera_move_list: one frame of the Update schedule, with the    *)
(* commands it queued applied and the observers they trigger run.          *)

AnimationEnd == [type |-> "AnimationEnd"]

AnimationBegin == [type |-> "AnimationBegin"]

CameraMoveBegin(m) == [type |-> "CameraMoveBegin", camera_move |-> m]

CameraMoveEnd(m) == [type |-> "CameraMoveEnd", camera_move |-> m]

ZoomBegin(target_entity, margin, duration_ms, easing) ==
    [type |-> "ZoomBegin", target_entity |-> target_entity, margin |-> margin,
     duration_ms |-> duration_ms, easing |-> easing]

ZoomEnd(target_entity, margin, duration_ms, easing) ==
    [type |-> "ZoomEnd", target_entity |-> target_entity, margin |-> margin,
     duration_ms |-> duration_ms, easing |-> easing]

\* restore_smoothness_on_move_end, run when the removal of CameraMoveList is
\* applied: the camera it leaves.
RestoredCamera(c, s) ==
    IF s.present
    THEN [c EXCEPT !.zoom_smoothness = s.zoom, !.pan_smoothness = s.pan,
                   !.orbit_smoothness = s.orbit]
    ELSE c

\* The empty-queue arm ignoring the ZoomAnimationMarker.
CompletionEventAnimation(mk) == [type |-> "AnimationEnd"]

\* The event triggered for an empty queue.
CompletionEvent(mk) ==
    IF mk.present
    THEN ZoomEnd(mk.target_entity, mk.margin, mk.duration_ms, mk.easing)
    ELSE AnimationEnd

\* MoveState::Ready arm: smoothing off.
SmoothingDisabled(c) ==
    [c EXCEPT !.zoom_smoothness = 0, !.pan_smoothness = 0,
              !.orbit_smoothness = 0]

\* The Ready arm entering InProgress without capturing the camera.
SnapshotDefault(c) == [Ready EXCEPT !.kind = "InProgress"]

\* MoveState::Ready arm: the InProgress state that captures the camera.
Snapshot(c) ==
    [kind |-> "InProgress", elapsed_ms |-> 0, start_focus |-> c.target_focus,
     start_pitch |-> c.target_pitch, start_radius |-> c.target_radius,
     start_yaw |-> c.target_yaw]

\* The InProgress arm writing the canonical yaw and pitch once t is 1, and
\* the unwrapped ones before.
InterpolatedCanonicalAtEnd(c, st, m) ==
    LET t == Factor(st.elapsed_ms, m.duration_ms)
        params == OrbitalParams(m)
        t_interp == Ease(m.easing, t)
        yaw_diff == WrapYaw(params[1] - st.start_yaw)
        pitch_diff == PitchTarget(params[2], st.start_pitch) - st.start_pitch
    IN  [c EXCEPT
           !.target_focus = Lerp(st.start_focus, m.focus, t_interp),
           !.target_radius =
               MulAdd(params[3] - st.start_radius, t_interp, st.start_radius),
           !.target_yaw =
               IF t = <<1, 1>> THEN params[1]
               ELSE MulAdd(yaw_diff, t_interp, st.start_yaw),
           !.target_pitch =
               IF t = <<1, 1>> THEN params[2]
               ELSE MulAdd(pitch_diff, t_interp, st.start_pitch)]

\* MoveState::InProgress arm: the camera after the pose is written, for the
\* state st whose elapsed_ms is already advanced.
Interpolated(c, st, m) ==
    LET t == Factor(st.elapsed_ms, m.duration_ms)
        params == OrbitalParams(m)
        canonical_yaw == params[1]
        canonical_pitch == params[2]
        canonical_radius == params[3]
        t_interp == Ease(m.easing, t)
        yaw_diff == WrapYaw(canonical_yaw - st.start_yaw)
        pitch_target == PitchTarget(canonical_pitch, st.start_pitch)
        pitch_diff == pitch_target - st.start_pitch
    IN  [c EXCEPT
           !.target_focus = Lerp(st.start_focus, m.focus, t_interp),
           !.target_radius =
               MulAdd(canonical_radius - st.start_radius, t_interp,
                      st.start_radius),
           !.target_yaw = MulAdd(yaw_diff, t_interp, st.start_yaw),
           !.target_pitch = MulAdd(pitch_diff, t_interp, st.start_pitch)]

\* is_final_frame
IsFinalFrame(st, m) == Factor(st.elapsed_ms, m.duration_ms) = <<1, 1>>

RECURSIVE DurationSum(_)
\* moves.iter().map(CameraMove::duration_ms).sum()
DurationSum(ms) ==
    IF ms = <<>> THEN 0 ELSE Head(ms).duration_ms + DurationSum(Tail(ms))

\* remaining_time_ms counting the front move in full whatever has elapsed.
RemainingTimeMsIgnoresElapsed(ms, st) == DurationSum(ms)

\* CameraMoveList::remaining_time_ms
RemainingTimeMs(ms, st) ==
    LET current_remaining ==
            IF st.kind = "InProgress"
            THEN IF ms # <<>>
                 THEN IF Head(ms).duration_ms - st.elapsed_ms > 0
                      THEN Head(ms).duration_ms - st.elapsed_ms ELSE 0
                 ELSE 0
            ELSE IF ms # <<>> THEN Head(ms).duration_ms ELSE 0
        remaining_queue == IF ms = <<>> THEN 0 ELSE DurationSum(Tail(ms))
    IN  current_remaining + remaining_queue

\* The camera has no CameraMoveList: the query does not yield it.
TickAbsent(dt) ==
    /\ ~hasList
    /\ force_update' = FALSE
    /\ UNCHANGED <<cam, hasList, moves, state, stash, marker, fit_target,
                   events, ops, req, edited, nticks, completions>>
    /\ UNCHANGED <<calc, tried>>
    /\ UNCHANGED zoomVars

\* The empty-queue arm without remove::<CameraMoveList>().
TickEmptyKeepsList(dt) ==
    /\ hasList
    /\ moves = <<>>
    /\ marker' = NoMarker
    /\ events' = Append(events, CompletionEvent(marker))
    /\ force_update' = FALSE
    /\ nticks' = nticks + 1
    /\ completions' = completions + 1
    /\ UNCHANGED <<cam, hasList, moves, state, stash, fit_target, ops, req,
                   edited>>
    /\ UNCHANGED <<calc, tried>>
    /\ UNCHANGED zoomVars

\* The empty-queue arm removing the components without triggering an event.
TickEmptySilent(dt) ==
    /\ hasList
    /\ moves = <<>>
    /\ hasList' = FALSE
    /\ state' = Ready
    /\ cam' = RestoredCamera(cam, stash)
    /\ stash' = NoStash
    /\ marker' = NoMarker
    /\ force_update' = FALSE
    /\ nticks' = nticks + 1
    /\ UNCHANGED <<moves, fit_target, events, ops, req, edited, completions>>
    /\ UNCHANGED <<calc, tried>>
    /\ UNCHANGED zoomVars

\* The empty-queue arm completing only a list that is Ready, and dropping
\* one whose move was in progress.
TickEmptyIfReady(dt) ==
    /\ hasList
    /\ moves = <<>>
    /\ hasList' = FALSE
    /\ state' = Ready
    /\ force_update' = FALSE
    /\ nticks' = nticks + 1
    /\ IF state.kind = "Ready"
       THEN /\ cam' = RestoredCamera(cam, stash)
            /\ stash' = NoStash
            /\ marker' = NoMarker
            /\ events' = Append(events, CompletionEvent(marker))
            /\ completions' = completions + 1
       ELSE UNCHANGED <<cam, stash, marker, events, completions>>
    /\ UNCHANGED <<moves, fit_target, ops, req, edited>>
    /\ UNCHANGED <<calc, tried>>
    /\ UNCHANGED zoomVars

\* moves.front() is None: remove the components, then trigger the event.
TickEmpty(dt) ==
    /\ hasList
    /\ moves = <<>>
    /\ hasList' = FALSE
    /\ state' = Ready
    /\ cam' = RestoredCamera(cam, stash)
    /\ stash' = NoStash
    /\ marker' = NoMarker
    /\ events' = Append(events, CompletionEvent(marker))
    /\ force_update' = FALSE
    /\ nticks' = nticks + 1
    /\ completions' = completions + 1
    /\ UNCHANGED <<moves, fit_target, ops, req, edited>>
    /\ UNCHANGED <<calc, tried>>
    /\ UNCHANGED zoomVars

\* The Ready arm counting the frame's delta towards the move.
TickReadyAccumulates(dt) ==
    /\ hasList
    /\ moves # <<>>
    /\ state.kind = "Ready"
    /\ cam' = SmoothingDisabled(cam)
    /\ state' = [Snapshot(cam) EXCEPT !.elapsed_ms = dt]
    /\ events' = IF marker.present THEN events
                 ELSE Append(events, CameraMoveBegin(Head(moves)))
    /\ force_update' = FALSE
    /\ nticks' = nticks + 1
    /\ UNCHANGED <<hasList, moves, stash, marker, fit_target, ops, req, edited,
                   completions>>
    /\ UNCHANGED <<calc, tried>>
    /\ UNCHANGED zoomVars

\* MoveState::Ready arm.
TickReady(dt) ==
    /\ hasList
    /\ moves # <<>>
    /\ state.kind = "Ready"
    /\ cam' = SmoothingDisabled(cam)
    /\ state' = Snapshot(cam)
    /\ events' = IF marker.present THEN events
                 ELSE Append(events, CameraMoveBegin(Head(moves)))
    /\ force_update' = FALSE
    /\ nticks' = nticks + 1
    /\ UNCHANGED <<hasList, moves, stash, marker, fit_target, ops, req, edited,
                   completions>>
    /\ UNCHANGED <<calc, tried>>
    /\ UNCHANGED zoomVars

\* The InProgress arm completing the queue in the frame that pops its last
\* move.
TickInProgressEager(dt) ==
    /\ hasList
    /\ moves # <<>>
    /\ state.kind = "InProgress"
    /\ LET current_move == Head(moves)
           st == [state EXCEPT !.elapsed_ms = @ + dt]
           ended == IF marker.present THEN events
                    ELSE Append(events, CameraMoveEnd(current_move))
       IN  /\ force_update' = TRUE
           /\ IF IsFinalFrame(st, current_move)
              THEN /\ moves' = Tail(moves)
                   /\ state' = Ready
                   /\ IF Tail(moves) = <<>>
                      THEN /\ hasList' = FALSE
                           /\ cam' = RestoredCamera(
                                         Interpolated(cam, st, current_move),
                                         stash)
                           /\ stash' = NoStash
                           /\ marker' = NoMarker
                           /\ events' = Append(ended, CompletionEvent(marker))
                           /\ completions' = completions + 1
                      ELSE /\ cam' = Interpolated(cam, st, current_move)
                           /\ events' = ended
                           /\ UNCHANGED <<hasList, stash, marker, completions>>
              ELSE /\ cam' = Interpolated(cam, st, current_move)
                   /\ state' = st
                   /\ UNCHANGED <<events, moves, hasList, stash, marker,
                                  completions>>
    /\ nticks' = nticks + 1
    /\ UNCHANGED <<fit_target, ops, req, edited>>
    /\ UNCHANGED <<calc, tried>>
    /\ UNCHANGED zoomVars

\* The InProgress arm popping its move on every frame, whatever t.
TickInProgressPopsEarly(dt) ==
    /\ hasList
    /\ moves # <<>>
    /\ state.kind = "InProgress"
    /\ LET current_move == Head(moves)
           st == [state EXCEPT !.elapsed_ms = @ + dt]
       IN  /\ cam' = Interpolated(cam, st, current_move)
           /\ force_update' = TRUE
           /\ events' = IF marker.present THEN events
                        ELSE Append(events, CameraMoveEnd(current_move))
           /\ moves' = Tail(moves)
           /\ state' = Ready
    /\ nticks' = nticks + 1
    /\ UNCHANGED <<hasList, stash, marker, fit_target, ops, req, edited,
                   completions>>
    /\ UNCHANGED <<calc, tried>>
    /\ UNCHANGED zoomVars

\* MoveState::InProgress arm.
TickInProgress(dt) ==
    /\ hasList
    /\ moves # <<>>
    /\ state.kind = "InProgress"
    /\ LET current_move == Head(moves)
           st == [state EXCEPT !.elapsed_ms = @ + dt]
       IN  /\ cam' = Interpolated(cam, st, current_move)
           /\ force_update' = TRUE
           /\ IF IsFinalFrame(st, current_move)
              THEN /\ events' = IF marker.present THEN events
                                ELSE Append(events, CameraMoveEnd(current_move))
                   /\ moves' = Tail(moves)
                   /\ state' = Ready
              ELSE /\ state' = st
                   /\ UNCHANGED <<events, moves>>
    /\ nticks' = nticks + 1
    /\ UNCHANGED <<hasList, stash, marker, fit_target, ops, req, edited,
                   completions>>
    /\ UNCHANGED <<calc, tried>>
    /\ UNCHANGED zoomVars

\* The empty-queue arm with the removals applied after the event: the list
\* the observer inserted is the one removed.
TickEmptyObservedRemovesLast(dt, plan) ==
    /\ ops < MaxHostOps
    /\ hasList
    /\ moves = <<>>
    /\ hasList' = FALSE
    /\ moves' = plan
    /\ state' = Ready
    /\ cam' = RestoredCamera(cam, stash)
    /\ stash' = NoStash
    /\ marker' = NoMarker
    /\ events' = Append(events, CompletionEvent(marker))
    /\ force_update' = FALSE
    /\ ops' = ops + 1
    /\ req' = [kind |-> "chain", plan |-> plan, zoom |-> NoZoom,
               listed |-> TRUE, before |-> Smoothness(cam'),
               stashed |-> FALSE, mark |-> Len(events')]
    /\ edited' = FALSE
    /\ nticks' = 0
    /\ completions' = 0
    /\ UNCHANGED fit_target
    /\ UNCHANGED <<calc, tried>>
    /\ UNCHANGED zoomVars

\* moves.front() is None, and the host has an observer of AnimationEnd and
\* ZoomEnd that inserts CameraMoveList::new(plan) on the camera. The commands
\* are applied in the order they were queued: the removal of CameraMoveList,
\* which runs restore_smoothness_on_move_end, the removal of the
\* ZoomAnimationMarker, then the event, whose observer inserts the new list.
TickEmptyObserved(dt, plan) ==
    /\ ops < MaxHostOps
    /\ hasList
    /\ moves = <<>>
    /\ hasList' = TRUE
    /\ moves' = plan
    /\ state' = Ready
    /\ cam' = RestoredCamera(cam, stash)
    /\ stash' = NoStash
    /\ marker' = NoMarker
    /\ events' = Append(events, CompletionEvent(marker))
    /\ force_update' = FALSE
    /\ ops' = ops + 1
    /\ req' = [kind |-> "chain", plan |-> plan, zoom |-> NoZoom,
               listed |-> TRUE, before |-> Smoothness(cam'),
               stashed |-> FALSE, mark |-> Len(events')]
    /\ edited' = FALSE
    /\ nticks' = 0
    /\ completions' = 0
    /\ UNCHANGED fit_target
    /\ UNCHANGED <<calc, tried>>
    /\ UNCHANGED zoomVars

Tick(dt) ==
    \/ TickAbsent(dt)
    \/ TickEmpty(dt)
    \/ TickReady(dt)
    \/ TickInProgress(dt)

----------------------------------------------------------------------------
(* Observers of the command events, and what the host does to the entity.  *)

\* The stash taken after smoothing was disabled.
StashOfDisabled(c) == [present |-> TRUE, zoom |-> 0, pan |-> 0, orbit |-> 0]

\* on_play_animation: the SmoothnessStash it inserts.
StashOf(c) ==
    [present |-> TRUE, zoom |-> c.zoom_smoothness, pan |-> c.pan_smoothness,
     orbit |-> c.orbit_smoothness]

\* on_play_animation for the moves plan, run with the ZoomAnimationMarker mk
\* on the entity and evs the events triggered before it.
OnPlayAnimation(plan, mk, evs) ==
    /\ events' = IF mk.present THEN evs ELSE Append(evs, AnimationBegin)
    /\ stash' = StashOf(cam)
    /\ cam' = SmoothingDisabled(cam)
    /\ hasList' = TRUE
    /\ moves' = plan
    /\ state' = Ready

\* on_zoom_to_fit, animated path: the single move it plays.
ZoomMove(c, z, fit) ==
    ToOrbit(fit.focus, c.target_yaw, c.target_pitch, fit.radius,
            z.duration_ms, z.easing)

\* The marker with margin and duration_ms in each other's place.
MarkerOfSwapped(z) ==
    [present |-> TRUE, target_entity |-> z.target, margin |-> z.duration_ms,
     duration_ms |-> z.margin, easing |-> z.easing]

\* on_zoom_to_fit, animated path: the ZoomAnimationMarker it inserts.
MarkerOf(z) ==
    [present |-> TRUE, target_entity |-> z.target, margin |-> z.margin,
     duration_ms |-> z.duration_ms, easing |-> z.easing]

\* A request is handled; listed: it inserts a CameraMoveList.
Requested(kind, plan, z, listed) ==
    /\ ops < MaxHostOps
    /\ ops' = ops + 1
    /\ req' = [kind |-> kind, plan |-> plan, zoom |-> z, listed |-> listed,
               before |-> Smoothness(cam), stashed |-> stash.present,
               mark |-> Len(events)]
    /\ IF listed
       THEN /\ edited' = FALSE
            /\ nticks' = 0
            /\ completions' = 0
       ELSE UNCHANGED <<edited, nticks, completions>>

\* The host triggers PlayAnimation.
PlayAnimation(plan) ==
    /\ Requested("play", plan, NoZoom, TRUE)
    /\ OnPlayAnimation(plan, marker, events)
    /\ UNCHANGED <<force_update, marker, fit_target>>
    /\ UNCHANGED <<calc, tried>>
    /\ UNCHANGED zoomVars

\* on_zoom_to_fit animating whatever the duration, without the instant path.
ZoomToFitAlwaysAnimates(z, fit) ==
    LET begun == Append(events, ZoomBegin(z.target, z.margin, z.duration_ms,
                                          z.easing))
    IN  /\ Requested("zoom", <<>>, z, fit.vertices /\ fit.fit)
        /\ IF ~fit.vertices \/ ~fit.fit
           THEN /\ events' = begun
                /\ UNCHANGED <<cam, force_update, hasList, moves, state,
                               stash, marker, fit_target>>
           ELSE /\ marker' = MarkerOf(z)
                /\ OnPlayAnimation(<<ZoomMove(cam, z, fit)>>, MarkerOf(z),
                                   begun)
                /\ fit_target' = z.target
                /\ UNCHANGED force_update
        /\ UNCHANGED <<calc, tried>>
        /\ UNCHANGED zoomVars

\* The host triggers ZoomToFit; fit is what the vertex extraction and
\* calculate_fit give for the target.
ZoomToFit(z, fit) ==
    LET begun == Append(events, ZoomBegin(z.target, z.margin, z.duration_ms,
                                          z.easing))
    IN  /\ Requested("zoom", <<>>, z,
                      fit.vertices /\ fit.fit /\ z.duration_ms > 0)
        /\ IF ~fit.vertices \/ ~fit.fit
           THEN /\ events' = begun
                /\ UNCHANGED <<cam, force_update, hasList, moves, state,
                               stash, marker, fit_target>>
           ELSE IF z.duration_ms > 0
           THEN /\ marker' = MarkerOf(z)
                /\ OnPlayAnimation(<<ZoomMove(cam, z, fit)>>, MarkerOf(z),
                                   begun)
                /\ fit_target' = z.target
                /\ UNCHANGED force_update
           ELSE /\ cam' = [cam EXCEPT !.target_focus = fit.focus,
                                      !.target_radius = fit.radius]
                /\ force_update' = TRUE
                /\ events' = Append(begun, ZoomEnd(z.target, z.margin,
                                                   z.duration_ms, z.easing))
                /\ fit_target' = z.target
                /\ UNCHANGED <<hasList, moves, state, stash, marker>>
        /\ UNCHANGED <<calc, tried>>
        /\ UNCHANGED zoomVars

\* The host inserts CameraMoveList::new(plan) on the camera itself.
InsertMoveList(plan) ==
    /\ Requested("insert", plan, NoZoom, TRUE)
    /\ hasList' = TRUE
    /\ moves' = plan
    /\ state' = Ready
    /\ UNCHANGED <<cam, force_update, stash, marker, fit_target, events>>
    /\ UNCHANGED <<calc, tried>>
    /\ UNCHANGED zoomVars

\* The host cancels: it clears CameraMoveList::moves.
ClearMoves ==
    /\ ops < MaxHostOps
    /\ hasList
    /\ moves # <<>>
    /\ moves' = <<>>
    /\ ops' = ops + 1
    /\ edited' = TRUE
    /\ UNCHANGED <<cam, force_update, hasList, state, stash, marker,
                   fit_target, events, req, nticks, completions>>
    /\ UNCHANGED <<calc, tried>>
    /\ UNCHANGED zoomVars

\* The host (user input, other systems) moves the camera during an animation.
SetPose(p) ==
    /\ ops < MaxHostOps
    /\ hasList
    /\ cam' = [cam EXCEPT !.target_focus = p.focus, !.target_yaw = p.yaw,
                          !.target_pitch = p.pitch, !.target_radius = p.radius]
    /\ ops' = ops + 1
    /\ edited' = TRUE
    /\ UNCHANGED <<force_update, hasList, moves, state, stash, marker,
                   fit_target, events, req, nticks, completions>>
    /\ UNCHANGED <<calc, tried>>
    /\ UNCHANGED zoomVars

Frame == \E dt \in Deltas : Tick(dt)

Play == \E plan \in Plans : PlayAnimation(plan)

Zoom == \E z \in ZoomRequests, fit \in FitOutcomes : ZoomToFit(z, fit)

Insert == \E plan \in Plans : InsertMoveList(plan)

Move == \E p \in HostPoses : SetPose(p)

Next ==
    \/ Frame
    \/ Play
    \/ Zoom
    \/ Insert
    \/ ClearMoves
    \/ Move

Spec == Init /\ [][Next]_vars

\* The scheduler runs the Update schedule every frame.
FairSpec == Spec /\ WF_vars(Frame)

\* The host only triggers PlayAnimation and ZoomToFit, between frames.
RequestNext ==
    \/ Frame
    \/ Play
    \/ Zoom

RequestSpec == Init /\ [][RequestNext]_vars

Chain == \E dt \in Deltas, plan \in Plans : TickEmptyObserved(dt, plan)

\* The host triggers PlayAnimation and ZoomToFit and chains animations from
\* its observer of the completion events.
ChainNext ==
    \/ Frame
    \/ Play
    \/ Zoom
    \/ Chain

ChainSpec == Init /\ [][ChainNext]_vars

\* The camera at a start pose right after the host triggered PlayAnimation
\* with one move: on_play_animation has stashed the smoothness and inserted
\* the CameraMoveList.
AngleInit ==
    \E y \in Angles, p \in Angles, m \in AngleMoves :
        /\ cam = [target_focus |-> Zero3, target_yaw |-> y, target_pitch |-> p,
                  target_radius |-> 2, zoom_smoothness |-> 0,
                  pan_smoothness |-> 0, orbit_smoothness |-> 0]
        /\ force_update = FALSE
        /\ hasList = TRUE
        /\ moves = <<m>>
        /\ state = Ready
        /\ stash = [present |-> TRUE, zoom |-> 1, pan |-> 2, orbit |-> 3]
        /\ marker = NoMarker
        /\ fit_target = 0
        /\ events = <<AnimationBegin>>
        /\ ops = 1
        /\ req = [kind |-> "play", plan |-> <<m>>, zoom |-> NoZoom,
                  listed |-> TRUE, before |-> <<1, 2, 3>>, stashed |-> FALSE,
                  mark |-> 0]
        /\ edited = FALSE
        /\ nticks = 0
        /\ completions = 0
        /\ calc = NoCalc
        /\ tried = <<>>
        /\ ZoomIdle

\* The frames that play the move, with nothing else touching the camera.
AngleSpec == AngleInit /\ [][Frame]_vars

----------------------------------------------------------------------------
(* calculate_fit, one step at a time: its entry, the head of the outer     *)
(* loop, the body of the centering loop, and the evaluation of a candidate *)
(* radius.                                                                 *)

camVars == <<cam, force_update, hasList, moves, state, stash, marker,
             fit_target, events, ops, req, edited, nticks, completions>>

\* points.iter().map(|c| (*c - geometric_center).length()).fold(0.0, f32::max)
ObjectRadius(points, geometric_center) ==
    LET lengths ==
            {0} \cup {Length(Sub3(points[i], geometric_center)) :
                      i \in 1..Len(points)}
    IN  CHOOSE r \in lengths : \A l \in lengths : l <= r

\* The bounds of the points seen from the focus c.focus at the candidate
\* radius c.test_radius.
BoundsAt(c, zoom_multiplier) ==
    LET cam_distance == IF c.ortho_fixed_distance.some
                        THEN c.ortho_fixed_distance.value
                        ELSE c.test_radius
    IN  FromPoints(c.points, CamPosition(c.focus, cam_distance),
                   BuildTestProjection(c.projection, c.test_radius),
                   c.aspect_ratio.value, zoom_multiplier)

\* The entry of calculate_fit refusing an empty point list.
CalculateFitBeginRejectsEmpty ==
    /\ calc.pc = "begin"
    /\ LET aspect_ratio ==
               ProjectionAspectRatio(calc.projection, calc.viewport_size)
           object_radius ==
               ObjectRadius(calc.points, calc.geometric_center)
       IN  IF ~aspect_ratio.some \/ calc.points = <<>>
           THEN calc' = [calc EXCEPT !.pc = "done", !.result = None]
           ELSE calc' =
                    [calc EXCEPT
                       !.pc = "iterate",
                       !.aspect_ratio = aspect_ratio,
                       !.ortho_fixed_distance =
                           IF calc.projection.kind = "Orthographic"
                           THEN Some((calc.projection.near
                                          + calc.projection.far) \div 2)
                           ELSE None,
                       !.object_radius = object_radius,
                       !.min_radius = object_radius \div 10,
                       !.max_radius = object_radius * 100,
                       !.best_radius = object_radius * 2,
                       !.best_focus = calc.geometric_center,
                       !.best_error = INFINITY]
    /\ UNCHANGED tried
    /\ UNCHANGED camVars
    /\ UNCHANGED zoomVars

\* The entry of calculate_fit, up to the outer loop.
CalculateFitBegin ==
    /\ calc.pc = "begin"
    /\ LET aspect_ratio ==
               ProjectionAspectRatio(calc.projection, calc.viewport_size)
           object_radius ==
               ObjectRadius(calc.points, calc.geometric_center)
       IN  IF ~aspect_ratio.some
           THEN calc' = [calc EXCEPT !.pc = "done", !.result = None]
           ELSE calc' =
                    [calc EXCEPT
                       !.pc = "iterate",
                       !.aspect_ratio = aspect_ratio,
                       !.ortho_fixed_distance =
                           IF calc.projection.kind = "Orthographic"
                           THEN Some((calc.projection.near
                                          + calc.projection.far) \div 2)
                           ELSE None,
                       !.object_radius = object_radius,
                       !.min_radius = object_radius \div 10,
                       !.max_radius = object_radius * 100,
                       !.best_radius = object_radius * 2,
                       !.best_focus = calc.geometric_center,
                       !.best_error = INFINITY]
    /\ UNCHANGED tried
    /\ UNCHANGED camVars
    /\ UNCHANGED zoomVars

\* The outer loop starts an iteration: the candidate radius, and the
\* centering loop entered from the geometric centre.
IterationBegin ==
    /\ calc.pc = "iterate"
    /\ calc.iteration < MAX_ITERATIONS
    /\ calc' = [calc EXCEPT
                  !.pc = "center",
                  !.iteration = @ + 1,
                  !.test_radius = (calc.min_radius + calc.max_radius) \div 2,
                  !.focus = calc.geometric_center,
                  !.centering_iteration = 0]
    /\ UNCHANGED tried
    /\ UNCHANGED camVars
    /\ UNCHANGED zoomVars

\* The outer loop is over after MAX_ITERATIONS iterations.
SearchExhausted ==
    /\ calc.pc = "iterate"
    /\ calc.iteration >= MAX_ITERATIONS
    /\ calc' = [calc EXCEPT
                  !.pc = "done",
                  !.result = Some(<<calc.best_radius, calc.best_focus>>)]
    /\ UNCHANGED tried
    /\ UNCHANGED camVars
    /\ UNCHANGED zoomVars

\* One body of the loop of refine_focus_centering, for the bounds it finds:
\* break, or shift the focus.
AfterCentering(c, bounds) ==
    IF ~bounds.some
    THEN [c EXCEPT !.pc = "evaluate", !.centering_iteration = @ + 1]
    ELSE IF /\ Below(Center(bounds.value)[1], CENTERING_TOLERANCE)
            /\ Below(Center(bounds.value)[2], CENTERING_TOLERANCE)
    THEN [c EXCEPT !.pc = "evaluate", !.centering_iteration = @ + 1]
    ELSE [c EXCEPT !.focus = ShiftedFocus(c.focus, bounds.value),
                   !.centering_iteration = @ + 1]

CenteringStep ==
    /\ calc.pc = "center"
    /\ calc.centering_iteration < CENTERING_MAX_ITERATIONS
    /\ \E bounds \in {BoundsAt(calc, <<1, 1>>)} :
           calc' = AfterCentering(calc, bounds)
    /\ UNCHANGED tried
    /\ UNCHANGED camVars
    /\ UNCHANGED zoomVars

\* The centering loop starting over once its iterations are used up.
CenteringRestarts ==
    /\ calc.pc = "center"
    /\ calc.centering_iteration >= CENTERING_MAX_ITERATIONS
    /\ calc' = [calc EXCEPT !.centering_iteration = 0]
    /\ UNCHANGED tried
    /\ UNCHANGED camVars
    /\ UNCHANGED zoomVars

\* The loop of refine_focus_centering is over after
\* CENTERING_MAX_ITERATIONS bodies.
CenteringExhausted ==
    /\ calc.pc = "center"
    /\ calc.centering_iteration >= CENTERING_MAX_ITERATIONS
    /\ calc' = [calc EXCEPT !.pc = "evaluate"]
    /\ UNCHANGED tried
    /\ UNCHANGED camVars
    /\ UNCHANGED zoomVars

\* max_radius - min_radius < 0.001
Converged(min_radius, max_radius) ==
    max_radius - min_radius < ConvergenceWidth

\* What an outer iteration leaves in tried: its candidate, whether it had
\* bounds and with what margin error, the width of the interval it left,
\* and whether it returned.
Entry(c, after, valid, error) ==
    [valid |-> valid, radius |-> c.test_radius, focus |-> c.focus,
     error |-> error, width |-> after.max_radius - after.min_radius,
     stopped |-> after.pc = "done"]

\* The else of the let searching lower.
AfterBehindSearchesLower(c) ==
    [c EXCEPT !.max_radius = c.test_radius, !.pc = "iterate"]

\* The else of the let: search higher.
AfterBehind(c) == [c EXCEPT !.min_radius = c.test_radius, !.pc = "iterate"]

\* The else of the let followed by the width test of the valid iterations.
EvaluateBehindStops ==
    /\ calc.pc = "evaluate"
    /\ \E bounds \in {BoundsAt(calc, ZoomMarginMultiplier(calc.margin))} :
           ~bounds.some
    /\ calc' = IF Converged(calc.test_radius, calc.max_radius)
               THEN [calc EXCEPT
                       !.min_radius = calc.test_radius,
                       !.pc = "done",
                       !.result = Some(<<calc.best_radius, calc.best_focus>>)]
               ELSE AfterBehind(calc)
    /\ tried' = Append(tried, Entry(calc, calc', FALSE, NAN))
    /\ UNCHANGED camVars
    /\ UNCHANGED zoomVars

\* The candidate puts a point behind the camera: search higher, and go on
\* to the next iteration.
EvaluateBehind ==
    /\ calc.pc = "evaluate"
    /\ \E bounds \in {BoundsAt(calc, ZoomMarginMultiplier(calc.margin))} :
           ~bounds.some
    /\ calc' = AfterBehind(calc)
    /\ tried' = Append(tried, Entry(calc, calc', FALSE, NAN))
    /\ UNCHANGED camVars
    /\ UNCHANGED zoomVars

\* The constraining dimension: (current_margin, target_margin).
Constraining(bounds) ==
    LET h_min == XMin(bounds.left_margin, bounds.right_margin)
        v_min == XMin(bounds.top_margin, bounds.bottom_margin)
    IN  IF XLt(h_min, v_min) THEN <<h_min, bounds.target_margin_x>>
        ELSE <<v_min, bounds.target_margin_y>>

\* (current_margin - target_margin).abs()
MarginError(margins) == XAbs(XSub(margins[1], margins[2]))

\* A valid iteration with the best-seen triple best: the interval narrowed,
\* and the return once it is narrow.
Narrowed(c, margins, best) ==
    LET too_far == XLt(margins[2], margins[1])
        max_radius == IF too_far THEN c.test_radius ELSE c.max_radius
        min_radius == IF too_far THEN c.min_radius ELSE c.test_radius
    IN  [c EXCEPT
           !.best_error = best[1],
           !.best_radius = best[2],
           !.best_focus = best[3],
           !.min_radius = min_radius,
           !.max_radius = max_radius,
           !.pc = IF Converged(min_radius, max_radius) THEN "done"
                  ELSE "iterate",
           !.result = IF Converged(min_radius, max_radius)
                      THEN Some(<<best[2], best[3]>>)
                      ELSE @]

\* A valid iteration, from the margins of its bounds.
AfterValid(c, margins) ==
    Narrowed(c, margins,
             BestAfter(<<c.best_error, c.best_radius, c.best_focus>>,
                       <<MarginError(margins), c.test_radius, c.focus>>))

\* The candidate has bounds: track the best, narrow the interval, and
\* return once it is narrow.
EvaluateBounds ==
    /\ calc.pc = "evaluate"
    /\ \E bounds \in {BoundsAt(calc, ZoomMarginMultiplier(calc.margin))} :
           /\ bounds.some
           /\ \E margins \in {Constraining(bounds.value)} :
                  /\ calc' = AfterValid(calc, margins)
                  /\ tried' = Append(tried,
                                     Entry(calc, calc', TRUE,
                                           MarginError(margins)))
    /\ UNCHANGED camVars
    /\ UNCHANGED zoomVars

\* calculate_fit is called for a camera that plays no animation.
FitInit ==
    /\ CameraInit
    /\ \E points \in FitPoints, view \in FitViews, margin \in FitMargins :
           calc = [NoCalc EXCEPT !.pc = "begin", !.points = points,
                                 !.margin = margin, !.projection = view[1],
                                 !.viewport_size = view[2]]
    /\ tried = <<>>

FitNext ==
    \/ CalculateFitBegin
    \/ IterationBegin
    \/ SearchExhausted
    \/ CenteringStep
    \/ CenteringExhausted
    \/ EvaluateBehind
    \/ EvaluateBounds

FitSpec == FitInit /\ [][FitNext]_vars

----------------------------------------------------------------------------
(* zoom_to_fit_convergence_system: one frame of the Update schedule for a  *)
(* camera that carries a ZoomToFitComponent, with the commands it queued   *)
(* applied.                                                                *)

\* The iteration_count up to which the frames are followed.
MaxIterationCount == 202

\* The corners of a cube of side 1 around the origin.
Box ==
    <<<<-1000, -1000, -1000>>, <<1000, -1000, -1000>>, <<-1000, 1000, -1000>>,
      <<1000, 1000, -1000>>, <<-1000, -1000, 1000>>, <<1000, -1000, 1000>>,
      <<-1000, 1000, 1000>>, <<1000, 1000, 1000>>>>

\* target_radius of the camera when the component is inserted: 0, 0.02, 2.5
\* and 10 world units.
ZoomRadii == {0, 40, 5000, 20000}

ZoomFoci == {Zero3, <<400, 0, 0>>}

\* The default ZoomConfig, and one that gives up after 6 iterations and
\* accepts margins within 0.01.
ZoomConfigs ==
    {ZoomConfigDefault,
     [max_iterations |-> 6, margin |-> 25, margin_tolerance |-> <<1, 100>>,
      convergence_rate |-> <<3, 10>>]}

Least(a, b) == IF a < b THEN a ELSE b

Greatest(a, b) == IF a > b THEN a ELSE b

\* The running extremes from_corners starts its loop with.
NoCornerExtremes ==
    [min_norm_x |-> INFINITY, max_norm_x |-> -INFINITY,
     min_norm_y |-> INFINITY, max_norm_y |-> -INFINITY, avg_depth |-> 0]

\* The loop of from_corners over corners[i..]: the extremes and the sum of
\* the depths, or None at the first corner behind the camera.
RECURSIVE CornerExtremes(_, _, _, _)
CornerExtremes(corners, i, cam_pos, e) ==
    IF i > Len(corners) THEN Some(e)
    ELSE The({IF p[3] <= Unit \div 10 THEN None
              ELSE The({CornerExtremes(corners, i + 1, cam_pos, next) :
                        next \in
                          {[min_norm_x |->
                                Least(e.min_norm_x, (p[1] * Unit) \div p[3]),
                            max_norm_x |->
                                Greatest(e.max_norm_x, (p[1] * Unit) \div p[3]),
                            min_norm_y |->
                                Least(e.min_norm_y, (p[2] * Unit) \div p[3]),
                            max_norm_y |->
                                Greatest(e.max_norm_y, (p[2] * Unit) \div p[3]),
                            avg_depth |-> e.avg_depth + p[3]]}}) :
              p \in {<<Dot(Sub3(corners[i], cam_pos), CamRight),
                       Dot(Sub3(corners[i], cam_pos), CamUp),
                       Dot(Sub3(corners[i], cam_pos), CamForward)>>}})

\* from_corners after its loop, for the extremes e.
CornerBounds(e, half_tan_vfov, half_tan_hfov, zoom_multiplier) ==
    [left_margin |-> e.min_norm_x + half_tan_hfov,
     right_margin |-> half_tan_hfov - e.max_norm_x,
     top_margin |-> half_tan_vfov - e.max_norm_y,
     bottom_margin |-> e.min_norm_y + half_tan_vfov,
     target_margin_x |-> half_tan_hfov - DivBy(half_tan_hfov, zoom_multiplier),
     target_margin_y |-> half_tan_vfov - DivBy(half_tan_vfov, zoom_multiplier),
     min_norm_x |-> e.min_norm_x, max_norm_x |-> e.max_norm_x,
     min_norm_y |-> e.min_norm_y, max_norm_y |-> e.max_norm_y,
     avg_depth |-> e.avg_depth \div 8,
     half_tan_vfov |-> half_tan_vfov, half_tan_hfov |-> half_tan_hfov]

\* ScreenSpaceBounds::from_corners for a camera at cam_pos looking down -Z.
FromCorners(corners, cam_pos, perspective, viewport_aspect, zoom_multiplier) ==
    The({IF ~e.some THEN None
         ELSE Some(CornerBounds(e.value, perspective.half_tan_vfov,
                                (perspective.half_tan_vfov * viewport_aspect[1])
                                    \div viewport_aspect[2],
                                zoom_multiplier)) :
         e \in {CornerExtremes(corners, 1, cam_pos, NoCornerExtremes)}})

\* c.abs() < tolerance, for a tolerance given as a fraction of 1.0.
Within(c, tolerance) == Abs(c) <= (Unit * tolerance[1] - 1) \div tolerance[2]

\* ScreenSpaceBounds::is_balanced
IsBalanced(bounds, tolerance) ==
    /\ Within(bounds.left_margin - bounds.right_margin, tolerance)
    /\ Within(bounds.top_margin - bounds.bottom_margin, tolerance)

\* ScreenSpaceBounds::is_fitted
IsFitted(bounds, at_target_tolerance) ==
    LET h_min == Least(bounds.left_margin, bounds.right_margin)
        v_min == Least(bounds.top_margin, bounds.bottom_margin)
    IN  IF h_min < v_min
        THEN Within(h_min - bounds.target_margin_x, at_target_tolerance)
        ELSE Within(v_min - bounds.target_margin_y, at_target_tolerance)

\* calculate_target_focus
CalculateTargetFocus(current_focus, current_radius, bounds) ==
    IF 2 * Length(current_focus) > current_radius
    THEN Zero3
    ELSE LET center_x == (bounds.min_norm_x + bounds.max_norm_x) \div 2
             center_y == (bounds.min_norm_y + bounds.max_norm_y) \div 2
             world_offset_x == (center_x * bounds.avg_depth) \div Unit
             world_offset_y == (center_y * bounds.avg_depth) \div Unit
         IN  <<current_focus[1] + CamRight[1] * world_offset_x
                   + CamUp[1] * world_offset_y,
               current_focus[2] + CamRight[2] * world_offset_x
                   + CamUp[2] * world_offset_y,
               current_focus[3] + CamRight[3] * world_offset_x
                   + CamUp[3] * world_offset_y>>

\* calculate_target_radius
CalculateTargetRadius(current_radius, span_x, span_y, bounds, config) ==
    LET multiplier == ZoomMarginMultiplier(config.margin)
        target_span_x == DivBy(2 * bounds.half_tan_hfov, multiplier)
        target_span_y == DivBy(2 * bounds.half_tan_vfov, multiplier)
    IN  IF span_x * target_span_y > span_y * target_span_x
        THEN (current_radius * span_x) \div target_span_x
        ELSE (current_radius * span_y) \div target_span_y

\* The camera's GlobalTransform: where the pose puts it, smoothing being off.
CamGlobal(c) == CamPosition(c.target_focus, c.target_radius)

\* The bounds the frame computes, for the viewport aspect ratio or, without
\* a viewport, the aspect ratio of the projection.
CornersSeen ==
    FromCorners(zoom_state.target_corners, CamGlobal(cam), cam_view[1],
                IF cam_view[2].some THEN cam_view[2].value
                ELSE cam_view[1].aspect_ratio,
                ZoomMarginMultiplier(zoom_config.margin))

\* The pose written by a frame that has bounds.
Adjusted(c, bounds, config) ==
    LET current_radius == c.target_radius
        target_focus ==
            CalculateTargetFocus(c.target_focus, current_radius, bounds)
        target_radius ==
            CalculateTargetRadius(current_radius,
                                  bounds.max_norm_x - bounds.min_norm_x,
                                  bounds.max_norm_y - bounds.min_norm_y,
                                  bounds, config)
        focus_delta == Sub3(target_focus, c.target_focus)
        radius_delta == target_radius - current_radius
        floor == Greatest(current_radius, Unit \div 10)
        adaptive_rate ==
            IF Abs(radius_delta) * 20 < floor /\ Length(focus_delta) * 20 < floor
            THEN <<8, 10>>
            ELSE config.convergence_rate
    IN  [c EXCEPT
           !.target_focus =
               <<MulAdd(focus_delta[1], adaptive_rate, c.target_focus[1]),
                 MulAdd(focus_delta[2], adaptive_rate, c.target_focus[2]),
                 MulAdd(focus_delta[3], adaptive_rate, c.target_focus[3])>>,
           !.target_radius = MulAdd(radius_delta, adaptive_rate, current_radius)]

\* remove::<ZoomToFitComponent>() applied: restore_smoothness_on_zoom_complete
\* runs for the camera c.
ZoomToFitRemoved(c) ==
    /\ zoom_state' = [zoom_state EXCEPT !.present = FALSE]
    /\ cam' = RestoredCamera(c, stash)
    /\ stash' = NoStash

\* The projection is not a perspective one: the camera is skipped.
ConvergenceSkipped ==
    /\ zoom_state.present
    /\ cam_view[1].kind # "Perspective"
    /\ force_update' = FALSE
    /\ UNCHANGED <<cam, hasList, moves, state, stash, marker, fit_target,
                   events, ops, req, edited, nticks, completions>>
    /\ UNCHANGED <<calc, tried>>
    /\ UNCHANGED zoomVars

\* from_corners returns None: move the camera back.
ConvergenceBehind ==
    /\ zoom_state.present
    /\ zoom_state.iteration_count < MaxIterationCount
    /\ cam_view[1].kind = "Perspective"
    /\ \E bounds \in {CornersSeen} :
           /\ ~bounds.some
           /\ cam' = [cam EXCEPT
                        !.target_focus =
                            <<(zoom_state.target_corners[1][1]
                                 + zoom_state.target_corners[2][1]
                                 + zoom_state.target_corners[3][1]
                                 + zoom_state.target_corners[4][1]
                                 + zoom_state.target_corners[5][1]
                                 + zoom_state.target_corners[6][1]
                                 + zoom_state.target_corners[7][1]
                                 + zoom_state.target_corners[8][1]) \div 8,
                              (zoom_state.target_corners[1][2]
                                 + zoom_state.target_corners[2][2]
                                 + zoom_state.target_corners[3][2]
                                 + zoom_state.target_corners[4][2]
                                 + zoom_state.target_corners[5][2]
                                 + zoom_state.target_corners[6][2]
                                 + zoom_state.target_corners[7][2]
                                 + zoom_state.target_corners[8][2]) \div 8,
                              (zoom_state.target_corners[1][3]
                                 + zoom_state.target_corners[2][3]
                                 + zoom_state.target_corners[3][3]
                                 + zoom_state.target_corners[4][3]
                                 + zoom_state.target_corners[5][3]
                                 + zoom_state.target_corners[6][3]
                                 + zoom_state.target_corners[7][3]
                                 + zoom_state.target_corners[8][3]) \div 8>>,
                        !.target_radius = (@ * 3) \div 2]
    /\ force_update' = TRUE
    /\ zoom_state' = [zoom_state EXCEPT !.iteration_count = @ + 1]
    /\ UNCHANGED <<hasList, moves, state, stash, marker, fit_target, events,
                   ops, req, edited, nticks, completions>>
    /\ UNCHANGED <<calc, tried>>
    /\ UNCHANGED <<cam_view, zoom_config>>

\* from_corners returns bounds: adjust the pose, then remove the component
\* if the bounds were balanced and fitted, or count the iteration and remove
\* the component at max_iterations.
ConvergenceStep ==
    /\ zoom_state.present
    /\ cam_view[1].kind = "Perspective"
    /\ \E bounds \in {CornersSeen} :
           /\ bounds.some
           /\ \E adjusted \in {Adjusted(cam, bounds.value, zoom_config)} :
                  IF /\ IsBalanced(bounds.value, zoom_config.margin_tolerance)
                     /\ IsFitted(bounds.value, zoom_config.margin_tolerance)
                  THEN ZoomToFitRemoved(adjusted)
                  ELSE IF zoom_state.iteration_count + 1
                              >= zoom_config.max_iterations
                  THEN /\ zoom_state' =
                              [zoom_state EXCEPT !.present = FALSE,
                                                 !.iteration_count = @ + 1]
                       /\ cam' = RestoredCamera(adjusted, stash)
                       /\ stash' = NoStash
                  ELSE /\ zoom_state' =
                              [zoom_state EXCEPT !.iteration_count = @ + 1]
                       /\ cam' = adjusted
                       /\ UNCHANGED stash
    /\ force_update' = TRUE
    /\ UNCHANGED <<hasList, moves, state, marker, fit_target, events, ops,
                   req, edited, nticks, completions>>
    /\ UNCHANGED <<calc, tried>>
    /\ UNCHANGED <<cam_view, zoom_config>>

\* A camera whose smoothness is stashed carries a ZoomToFitComponent with
\* iteration_count 0.
ConvergenceInit ==
    /\ \E focus \in ZoomFoci, radius \in ZoomRadii :
           cam = [target_focus |-> focus, target_yaw |-> 0, target_pitch |-> 0,
                  target_radius |-> radius, zoom_smoothness |-> 0,
                  pan_smoothness |-> 0, orbit_smoothness |-> 0]
    /\ force_update = FALSE
    /\ hasList = FALSE
    /\ moves = <<>>
    /\ state = Ready
    /\ stash = [present |-> TRUE, zoom |-> 1, pan |-> 2, orbit |-> 3]
    /\ marker = NoMarker
    /\ fit_target = 0
    /\ events = <<>>
    /\ ops = 0
    /\ req = NoRequest
    /\ edited = FALSE
    /\ nticks = 0
    /\ completions = 0
    /\ calc = NoCalc
    /\ tried = <<>>
    /\ cam_view \in FitViews
    /\ zoom_config \in ZoomConfigs
    /\ \E corners \in {Cube, Box} :
           zoom_state = [present |-> TRUE, target_corners |-> corners,
                         iteration_count |-> 0]

ConvergenceNext ==
    \/ ConvergenceSkipped
    \/ ConvergenceBehind
    \/ ConvergenceStep

ConvergenceSpec == ConvergenceInit /\ [][ConvergenceNext]_vars

----------------------------------------------------------------------------
(* Properties.                                                             *)

\* The events triggered since the latest request began to be handled.
Since == SubSeq(events, req.mark + 1, Len(events))

\* The latest request put these three 100 ms ToOrbit moves on the camera,
\* and the host has not touched the queue or the camera since.
Drain3 ==
    /\ req.kind \in {"play", "insert"}
    /\ req.plan = <<OrbitA, OrbitB, OrbitC>>
    /\ ~edited

\* x and y are the same angle.
SameAngle(x, y) == (x - y) % TAU = 0

\* C1 as stated: once the frames' deltas total 300 ms, which they do when
\* even the shortest delta times the number of frames is 300 ms, the
\* three-move queue is gone and the camera is at the third move's target.
C1_DrainedAfter300ms ==
    (Drain3 /\ \A dt \in Deltas : nticks * dt >= 300) =>
        /\ ~hasList
        /\ Pose(cam) = <<OrbitC.focus, OrbitC.yaw, OrbitC.pitch, OrbitC.radius>>

\* C1 amended: every move takes a Ready frame and at least one InProgress
\* frame, and one more frame removes the list, so the three-move queue is
\* still there after six frames whatever their deltas; once it is gone the
\* camera's focus and radius are the third move's, and its yaw and pitch are
\* the third move's angles up to whole turns.
C1_DrainedAfterSevenFrames ==
    Drain3 =>
        /\ nticks < 7 => hasList
        /\ ~hasList =>
            /\ cam.target_focus = OrbitC.focus
            /\ cam.target_radius = OrbitC.radius
            /\ SameAngle(cam.target_yaw, OrbitC.yaw)
            /\ SameAngle(cam.target_pitch, OrbitC.pitch)

C1_Witness ==
    /\ Drain3
    /\ ~hasList
    /\ nticks >= 7
    /\ cam.target_yaw # OrbitC.yaw

\* C2: under a scheduler that keeps running frames, a CameraMoveList is
\* eventually removed; while it is on the camera no completion event has been
\* triggered for it and once it is gone exactly one has; and a frame that
\* finds no CameraMoveList leaves the camera pose alone.
C2_DrainsAndCompletesOnce ==
    /\ hasList ~> ~hasList
    /\ [](hasList => completions = 0)
    /\ []((~hasList /\ nticks > 0) => completions = 1)
    /\ [][(~hasList /\ Frame) => (Pose(cam') = Pose(cam) /\ ~force_update')]_vars

C2_Witness ==
    /\ ~hasList
    /\ completions = 1
    /\ ~edited
    /\ req.kind = "play"
    /\ Len(req.plan) = 2
    /\ nticks >= 5

\* C3: after a PlayAnimation with no later request, smoothing is off while a
\* move is in progress, and once the CameraMoveList is gone the smoothness is
\* what it was right before the PlayAnimation and no SmoothnessStash is left.
C3_SmoothnessRoundTrip ==
    req.kind = "play" =>
        /\ (hasList /\ state.kind = "InProgress") =>
               Smoothness(cam) = <<0, 0, 0>>
        /\ ~hasList => (Smoothness(cam) = req.before /\ ~stash.present)

C3_Witness ==
    /\ req.kind = "play"
    /\ ~hasList
    /\ completions = 1
    /\ req.before = <<1, 2, 3>>
    /\ Smoothness(cam) = <<1, 2, 3>>

\* C4: the step that takes a move from Ready to InProgress records the pose
\* the camera has at that step, with no time elapsed, and the recorded start
\* values do not change while the move stays InProgress.
C4_StartIsSnapshot ==
    [][/\ (state.kind = "Ready" /\ state'.kind = "InProgress") =>
            /\ <<state'.start_focus, state'.start_yaw, state'.start_pitch,
                 state'.start_radius>> = Pose(cam)
            /\ state'.elapsed_ms = 0
       /\ (state.kind = "InProgress" /\ state'.kind = "InProgress") =>
            /\ state'.start_focus = state.start_focus
            /\ state'.start_yaw = state.start_yaw
            /\ state'.start_pitch = state.start_pitch
            /\ state'.start_radius = state.start_radius]_vars

\* The second move of a PlayAnimation is under way from a pose the host set,
\* which is not the first move's target.
C4_Witness ==
    /\ req.kind = "play"
    /\ req.plan = <<OrbitA, OrbitB, OrbitC>>
    /\ hasList
    /\ Len(moves) = 2
    /\ state.kind = "InProgress"
    /\ state.elapsed_ms > 0
    /\ state.start_yaw = -2
    /\ state.start_focus = <<2, 2, 2>>

\* A frame pops the last move of the queue.
PopsLast ==
    /\ hasList
    /\ Len(moves) = 1
    /\ state.kind = "InProgress"
    /\ nticks' = nticks + 1
    /\ moves' = <<>>

\* A frame finds the CameraMoveList with no move in it.
FindsEmpty ==
    /\ hasList
    /\ moves = <<>>
    /\ nticks' = nticks + 1

\* C5 as stated: the frame that pops the last move removes the
\* CameraMoveList and triggers the completion event.
C5_CompletionOnFinishingFrame ==
    [][PopsLast => (~hasList' /\ completions' = completions + 1)]_vars

\* C5 amended: the frame that pops the last move writes the pose and leaves
\* an empty CameraMoveList in state Ready with no completion event; the next
\* frame removes the list and triggers the completion event, and does not
\* write the pose.
C5_CompletionOnNextFrame ==
    [][/\ PopsLast =>
            /\ hasList'
            /\ state' = Ready
            /\ completions' = 0
            /\ force_update'
            /\ \A i \in 1..Len(events') :
                   i > Len(events) =>
                       events'[i].type \notin {"AnimationEnd", "ZoomEnd"}
       /\ FindsEmpty =>
            /\ ~hasList'
            /\ completions' = 1
            /\ events' = Append(events, CompletionEvent(marker))
            /\ Pose(cam') = Pose(cam)
            /\ ~force_update']_vars

\* The last move has been popped and the list is still on the camera.
C5_Witness ==
    /\ hasList
    /\ moves = <<>>
    /\ state.kind = "Ready"
    /\ ~edited
    /\ force_update
    /\ completions = 0

\* A frame pops a move.
Pops ==
    /\ hasList
    /\ moves # <<>>
    /\ nticks' = nticks + 1
    /\ moves' = Tail(moves)

\* C6: a frame that pops a move leaves the list Ready without starting the
\* next move; a move is only popped by a frame that found it InProgress; and
\* the frame that starts a move takes the snapshot with no time elapsed,
\* pops nothing and does not write the pose.
C6_OneReadyFramePerMove ==
    [][/\ Pops =>
            /\ state.kind = "InProgress"
            /\ state' = Ready
            /\ \A i \in 1..Len(events') :
                   i > Len(events) => events'[i].type # "CameraMoveBegin"
       /\ (hasList /\ moves # <<>> /\ state.kind = "Ready"
              /\ nticks' = nticks + 1) =>
            /\ state' = Snapshot(cam)
            /\ state'.elapsed_ms = 0
            /\ moves' = moves
            /\ Pose(cam') = Pose(cam)
            /\ ~force_update']_vars

\* A move has completed with more moves queued, and the next has not begun.
C6_Witness ==
    /\ req.kind \in {"play", "insert"}
    /\ hasList
    /\ state.kind = "Ready"
    /\ moves # <<>>
    /\ Len(moves) < Len(req.plan)
    /\ force_update
    /\ events[Len(events)].type = "CameraMoveEnd"

\* C7 as stated: a frame that finds no move to process changes neither the
\* pose nor the components of the camera and triggers no event.
C7_EmptyQueueFrameIsNoOp ==
    [][(moves = <<>> /\ Frame) =>
           /\ Pose(cam') = Pose(cam)
           /\ hasList' = hasList
           /\ stash'.present = stash.present
           /\ marker'.present = marker.present
           /\ events' = events]_vars

\* C7 amended: a frame on a camera without a CameraMoveList changes nothing
\* of the camera and triggers no event; a frame that finds a CameraMoveList
\* with an empty queue does not write the pose, removes CameraMoveList,
\* SmoothnessStash and ZoomAnimationMarker, puts the stashed smoothness back
\* and triggers exactly one event, the completion event.
C7_EmptyQueueFrameCompletes ==
    [][Frame =>
           /\ ~hasList =>
                UNCHANGED <<cam, hasList, moves, state, stash, marker,
                            fit_target, events>>
           /\ (hasList /\ moves = <<>>) =>
                /\ Pose(cam') = Pose(cam)
                /\ ~force_update'
                /\ ~hasList'
                /\ ~stash'.present
                /\ ~marker'.present
                /\ stash.present =>
                       Smoothness(cam') = <<stash.zoom, stash.pan, stash.orbit>>
                /\ Len(events') = Len(events) + 1
                /\ events'[Len(events')].type =
                       IF marker.present THEN "ZoomEnd" ELSE "AnimationEnd"]_vars

\* An empty queue has been found and removed, with stash and marker.
C7_Witness ==
    /\ ~hasList
    /\ completions = 1
    /\ req.kind = "zoom"
    /\ req.listed
    /\ ~marker.present
    /\ ~stash.present
    /\ events[Len(events)].type = "ZoomEnd"

\* The host has cleared the queue under a move that was in progress.
Cancelled ==
    /\ hasList
    /\ moves = <<>>
    /\ state.kind = "InProgress"

\* C8: the frame after the host cleared the queue of a move in progress
\* removes the CameraMoveList, triggers the one completion event, puts the
\* stashed smoothness back and removes the stash, and does not write the pose.
C8_CancelCompletes ==
    [][(Cancelled /\ Frame) =>
           /\ ~hasList'
           /\ completions' = 1
           /\ events' = Append(events, CompletionEvent(marker))
           /\ ~marker'.present
           /\ stash.present =>
                  Smoothness(cam') = <<stash.zoom, stash.pan, stash.orbit>>
           /\ ~stash'.present
           /\ Pose(cam') = Pose(cam)
           /\ ~force_update']_vars

\* A PlayAnimation of OrbitA was cancelled half way and has completed.
C8_Witness ==
    /\ req.kind = "play"
    /\ req.plan = <<OrbitA>>
    /\ edited
    /\ ~hasList
    /\ completions = 1
    /\ cam.target_yaw = 1
    /\ Smoothness(cam) = <<1, 2, 3>>
    /\ events[Len(events)] = AnimationEnd

\* The latest request is a ZoomToFit that started an animation.
ZoomRun == req.kind = "zoom" /\ req.listed

C10_InsertedListRestoresSmoothness ==
    (req.kind = "insert" /\ ~req.stashed) =>
        /\ (hasList /\ state.kind = "InProgress") =>
               Smoothness(cam) = <<0, 0, 0>>
        /\ ~hasList => Smoothness(cam) = req.before

\* C11: a ZoomToFit with duration_ms <= 0 whose vertices are found and whose
\* fit succeeds writes the fit's focus and radius to the camera at once and
\* leaves its yaw, pitch and smoothness alone; it triggers ZoomBegin and then
\* ZoomEnd, both carrying the request, and nothing else; and it neither
\* inserts nor changes a CameraMoveList, a SmoothnessStash or a
\* ZoomAnimationMarker.
C11_InstantZoomSnaps ==
    [][\A z \in ZoomRequests, fit \in FitOutcomes :
         (ZoomToFit(z, fit) /\ z.duration_ms <= 0 /\ fit.vertices /\ fit.fit) =>
             /\ cam'.target_focus = fit.focus
             /\ cam'.target_radius = fit.radius
             /\ cam'.target_yaw = cam.target_yaw
             /\ cam'.target_pitch = cam.target_pitch
             /\ Smoothness(cam') = Smoothness(cam)
             /\ events' = events \o
                    <<ZoomBegin(z.target, z.margin, z.duration_ms, z.easing),
                      ZoomEnd(z.target, z.margin, z.duration_ms, z.easing)>>
             /\ UNCHANGED <<hasList, moves, state, stash, marker>>]_vars

C11_Witness ==
    /\ req.kind = "zoom"
    /\ req.zoom.duration_ms <= 0
    /\ Len(Since) = 2
    /\ Since[1].type = "ZoomBegin"
    /\ Since[2].type = "ZoomEnd"
    /\ cam.target_focus = <<1, 1, 0>>
    /\ cam.target_radius = 5
    /\ ~hasList
    /\ ~stash.present
    /\ ~marker.present
    /\ Smoothness(cam) = <<1, 2, 3>>

\* A move is being interpolated: the list is InProgress with a front move.
Interpolating == hasList /\ moves # <<>> /\ state.kind = "InProgress"

\* canonical_yaw - start_yaw and canonical_pitch - start_pitch of the front
\* move, before any unwrapping.
YawDiffRaw == OrbitalParams(Head(moves))[1] - state.start_yaw

PitchDiffRaw == OrbitalParams(Head(moves))[2] - state.start_pitch

\* The pitch difference the InProgress arm interpolates with.
PitchDiff ==
    PitchTarget(OrbitalParams(Head(moves))[2], state.start_pitch)
        - state.start_pitch

\* C12 as stated: for every start and target yaw the wrapped yaw difference
\* of an InProgress tick is above -PI and at most PI, and differs from
\* target - start by whole turns.
C12_WrappedYawAbovePiExcluded ==
    Interpolating =>
        /\ -PI < WrapYaw(YawDiffRaw)
        /\ WrapYaw(YawDiffRaw) <= PI
        /\ SameAngle(WrapYaw(YawDiffRaw), YawDiffRaw)

\* C12 amended: the wrapped yaw difference is at least -PI and below PI (a
\* raw difference of PI, or PI plus whole turns, wraps to -PI), and differs
\* from target - start by whole turns.
C12_WrappedYawBelowPi ==
    Interpolating =>
        /\ -PI <= WrapYaw(YawDiffRaw)
        /\ WrapYaw(YawDiffRaw) < PI
        /\ SameAngle(WrapYaw(YawDiffRaw), YawDiffRaw)

C12_Witness ==
    /\ Interpolating
    /\ state.elapsed_ms > 0
    /\ YawDiffRaw = 3 * PI
    /\ WrapYaw(YawDiffRaw) = -PI
    /\ cam.target_yaw < state.start_yaw

C14_ShortArc ==
    [][(Interpolating /\ Head(moves).kind = "ToOrbit" /\ Abs(YawDiffRaw) > PI
            /\ Frame) =>
          LET wrapped == WrapYaw(YawDiffRaw)
              written == cam'.target_yaw - state.start_yaw
          IN  /\ Abs(written) <= PI
              /\ IF wrapped >= 0
                 THEN /\ 0 <= written /\ written <= wrapped
                      /\ cam'.target_yaw >= cam.target_yaw
                 ELSE /\ wrapped <= written /\ written <= 0
                      /\ cam'.target_yaw <= cam.target_yaw]_vars

\* Half-way through the move from yaw 3 to yaw -3 the camera is at yaw 4,
\* between 3 and the unwrapped target 5.
C14_Witness ==
    /\ Interpolating
    /\ Head(moves).kind = "ToOrbit"
    /\ Head(moves).easing = "Linear"
    /\ state.start_yaw = 3
    /\ Head(moves).yaw = -3
    /\ state.elapsed_ms = 50
    /\ cam.target_yaw = 4

\* The frame pops the front move: it was the move's final frame.
FinalFrame == Interpolating /\ Frame /\ moves' = Tail(moves)

\* C15 as stated: the final frame of a ToOrbit move to a pitch of PI/2 writes
\* the yaw the move carries, from any start pose.
C15_FinalYawIsCarriedYaw ==
    [][(FinalFrame /\ Head(moves).kind = "ToOrbit"
            /\ Head(moves).pitch = PI \div 2) =>
          cam'.target_yaw = Head(moves).yaw]_vars

\* C15 amended: the final frame of a ToOrbit move, whatever its pitch, writes
\* the yaw the move carries up to whole turns, and that very yaw when it is
\* less than half a turn from the start yaw; the final frame of the
\* ToPosition move to the point straight above the focus writes the yaw
\* atan2(0, 0) = 0 up to whole turns, whatever yaw the pose was meant to have.
C15_FinalYawIsCarriedAngle ==
    [][FinalFrame =>
          IF Head(moves).kind = "ToOrbit"
          THEN /\ SameAngle(cam'.target_yaw, Head(moves).yaw)
               /\ Abs(YawDiffRaw) < PI => cam'.target_yaw = Head(moves).yaw
          ELSE SameAngle(cam'.target_yaw, Atan2(0, 0))]_vars

C15_Witness ==
    /\ hasList
    /\ moves = <<>>
    /\ req.plan = <<ToOrbit(Zero3, 3, PI \div 2, 6, 100, "Linear")>>
    /\ cam.target_yaw = 3
    /\ cam.target_pitch = PI \div 2
    /\ nticks = 3

----------------------------------------------------------------------------
(* calculate_fit.                                                          *)

\* The outer iterations calculate_fit has finished so far.
Valid(i) == tried[i].valid

ValidTried == {i \in 1..Len(tried) : Valid(i)}

FitDone == calc.pc = "done"

\* What is left to do at most: outer iterations not yet begun, each worth a
\* full centering loop and the steps around it, then the rest of the
\* current one.
PerIteration == CENTERING_MAX_ITERATIONS + 3

Rank ==
    CASE calc.pc = "begin" -> PerIteration * MAX_ITERATIONS + 3
      [] calc.pc = "iterate" ->
             PerIteration * (MAX_ITERATIONS - calc.iteration) + 1
      [] calc.pc = "center" ->
             PerIteration * (MAX_ITERATIONS - calc.iteration) + 3
                 + (CENTERING_MAX_ITERATIONS - calc.centering_iteration)
      [] calc.pc = "evaluate" ->
             PerIteration * (MAX_ITERATIONS - calc.iteration) + 2
      [] OTHER -> 0

\* C16: calculate_fit terminates for every input: the outer search begins
\* at most MAX_ITERATIONS iterations and a centering loop at most
\* CENTERING_MAX_ITERATIONS bodies; a call that has not returned can take
\* a step, and no step it can take fails to bring the return closer (the
\* rank decreases and never goes below 0); what it returns is None or Some
\* best-seen (radius, focus).
C16_FitTerminates ==
    /\ calc.iteration <= MAX_ITERATIONS
    /\ calc.centering_iteration <= CENTERING_MAX_ITERATIONS
    /\ Len(tried) <= calc.iteration
    /\ Rank >= 0
    /\ FitDone \/ ENABLED FitNext
    /\ ~ENABLED (FitNext /\ Rank' >= Rank)
    /\ FitDone =>
         \/ calc.result = None
         \/ calc.result = Some(<<calc.best_radius, calc.best_focus>>)

\* A single vertex at the geometric centre (object_radius 0) seen in
\* perspective: every one of the MAX_ITERATIONS candidates puts it behind
\* the camera, and the call returns Some.
C16_Witness ==
    /\ FitDone
    /\ calc.points = <<Zero3>>
    /\ calc.object_radius = 0
    /\ calc.iteration = MAX_ITERATIONS
    /\ Len(tried) = MAX_ITERATIONS
    /\ calc.result.some

\* What projection_aspect_ratio gives for the arguments of the call.
HasAspectRatio ==
    ProjectionAspectRatio(calc.projection, calc.viewport_size).some

\* The pair the search starts from.
InitialBest == <<2 * calc.object_radius, calc.geometric_center>>

\* C17 as stated: a call with no points, or one none of whose iterations
\* had valid bounds, returns None.
C17_EmptyOrInvisibleIsNone ==
    FitDone /\ (calc.points = <<>> \/ ValidTried = {}) => calc.result = None

\* C17: calculate_fit returns None exactly when the projection has no
\* aspect ratio.  Otherwise a call with no points returns Some((0,
\* geometric_center)) at the end of its first iteration, which has bounds,
\* and a call none of whose iterations had bounds goes through all
\* MAX_ITERATIONS of them and returns Some of the pair it started from,
\* (2 * object_radius, geometric_center).
C17_NoneOnlyWithoutAspectRatio ==
    FitDone =>
        /\ calc.result = None <=> ~HasAspectRatio
        /\ HasAspectRatio /\ calc.points = <<>> =>
               /\ calc.result = Some(<<0, calc.geometric_center>>)
               /\ Len(tried) = 1
               /\ Valid(1)
        /\ HasAspectRatio /\ ValidTried = {} =>
               /\ calc.result = Some(InitialBest)
               /\ Len(tried) = MAX_ITERATIONS

\* No points, seen in perspective: Some((0, geometric_center)) after one
\* iteration.
C17_Witness ==
    /\ FitDone
    /\ calc.points = <<>>
    /\ calc.projection.kind = "Perspective"
    /\ Len(tried) = 1
    /\ calc.result = Some(<<0, Zero3>>)

\* The candidate (radius, focus) of outer iteration i.
Candidate(i) == <<tried[i].radius, tried[i].focus>>

\* Iteration i has the smallest margin error of the iterations in among,
\* and is the earliest of those that have it.
Smallest(i, among) ==
    \A j \in among :
        /\ ~XLt(tried[j].error, tried[i].error)
        /\ tried[j].error = tried[i].error => i <= j

\* The valid iterations whose margin error is a number below infinity.
Measured == {i \in ValidTried : IsFinite(tried[i].error)}

\* C18 as stated: once an iteration had valid bounds, the call returns
\* Some of the candidate of the valid iteration with the smallest margin
\* error, the earliest on ties.
C18_BestOfValid ==
    FitDone /\ ValidTried # {} =>
        /\ calc.result.some
        /\ \E i \in ValidTried :
               /\ Smallest(i, ValidTried)
               /\ calc.result.value = Candidate(i)

\* C18: once an iteration had valid bounds, the call returns Some.  What
\* it returns is the candidate of the valid iteration with the smallest
\* margin error among those whose margin error is finite, the earliest on
\* ties; when no valid iteration had a finite margin error it is the pair
\* the search started from.  An iteration without bounds is never the one
\* returned.
C18_BestOfMeasured ==
    FitDone /\ ValidTried # {} =>
        /\ calc.result.some
        /\ IF Measured = {} THEN calc.result = Some(InitialBest)
           ELSE \E i \in Measured :
                    /\ Smallest(i, Measured)
                    /\ calc.result.value = Candidate(i)

\* The returned candidate is that of a valid iteration which valid
\* iterations and iterations without bounds came after.
C18_Witness ==
    /\ FitDone
    /\ \E i \in Measured :
           /\ Smallest(i, Measured)
           /\ calc.result.value = Candidate(i)
           /\ \E j \in i + 1..Len(tried) : Valid(j)
           /\ \E k \in i + 1..Len(tried) : ~Valid(k)

\* Outer iteration i left max_radius - min_radius < 0.001.
Narrow(i) == tried[i].width < ConvergenceWidth

\* A call that entered the loop returned from inside it, or after
\* MAX_ITERATIONS iterations.
StoppedOrExhausted ==
    FitDone /\ HasAspectRatio =>
        \/ Len(tried) = MAX_ITERATIONS
        \/ Len(tried) > 0 /\ tried[Len(tried)].stopped

\* C19 as stated: the search stops at the end of the first iteration that
\* leaves the interval narrow, with or without bounds, or after
\* MAX_ITERATIONS iterations.
C19_StopsOnceNarrow ==
    /\ \A i \in 1..Len(tried) : tried[i].stopped <=> Narrow(i)
    /\ StoppedOrExhausted

\* C19: the search stops at the end of the first iteration that has bounds
\* and leaves the interval narrow, or after MAX_ITERATIONS iterations; an
\* iteration without bounds goes on to the next one even when it leaves
\* the interval narrow.
C19_StopsOnceNarrowWithBounds ==
    /\ \A i \in 1..Len(tried) :
           /\ tried[i].stopped <=> Valid(i) /\ Narrow(i)
           /\ tried[i].stopped => i = Len(tried) /\ FitDone
    /\ StoppedOrExhausted

\* An iteration without bounds left the interval narrow, and the search
\* went on to its last iteration.
C19_Witness ==
    /\ FitDone
    /\ Len(tried) = MAX_ITERATIONS
    /\ ValidTried # {}
    /\ \E i \in 1..Len(tried) - 1 : ~Valid(i) /\ Narrow(i)

----------------------------------------------------------------------------
(* ScreenSpaceBounds::from_points.                                         *)

\* from_points is called with the focus and the candidate radius of calc.
AtCandidate == calc.pc \in {"center", "evaluate"}

\* The camera-relative depth of point i for the camera of the candidate.
DepthOf(i) ==
    Dot(Sub3(calc.points[i],
             CamPosition(calc.focus,
                         IF calc.ortho_fixed_distance.some
                         THEN calc.ortho_fixed_distance.value
                         ELSE calc.test_radius)),
        CamForward)

TooClose == {i \in 1..Len(calc.points) : DepthOf(i) <= MIN_VISIBLE_DEPTH}

\* C20: under a perspective projection from_points returns None if and
\* only if some point has camera-relative depth <= MIN_VISIBLE_DEPTH, and
\* otherwise Some bounds; under an orthographic projection it returns Some
\* bounds whatever the depths.
C20_BehindCameraFailure ==
    AtCandidate =>
        \A zoom_multiplier \in {<<1, 1>>, ZoomMarginMultiplier(calc.margin)} :
            /\ calc.projection.kind = "Perspective" =>
                   (BoundsAt(calc, zoom_multiplier) = None <=> TooClose # {})
            /\ calc.projection.kind = "Orthographic" =>
                   BoundsAt(calc, zoom_multiplier).some

\* A perspective candidate with one vertex too close and another in front
\* of the camera: no bounds.
C20_Witness ==
    /\ calc.pc = "evaluate"
    /\ calc.projection.kind = "Perspective"
    /\ TooClose # {}
    /\ TooClose # 1..Len(calc.points)
    /\ BoundsAt(calc, ZoomMarginMultiplier(calc.margin)) = None

----------------------------------------------------------------------------
(* Requests that overlap on one camera.                                    *)

\* C21: whatever PlayAnimation and ZoomToFit requests and frames came
\* before, a camera that has no CameraMoveList has the smoothness it was
\* spawned with, the one it had before the first request, and no
\* SmoothnessStash.
C21_SmoothnessSurvivesOverlap ==
    ~hasList => (Smoothness(cam) = <<1, 2, 3>> /\ ~stash.present)

\* The events of one type triggered so far.
Count(type) == Cardinality({i \in 1..Len(events) : events[i].type = type})

\* C22: there are never more AnimationEnd events than AnimationBegin
\* events, and once no CameraMoveList is left every AnimationBegin has had
\* its AnimationEnd: an animation that began is not left without one, nor
\* completed by a ZoomEnd instead.
C22_AnimationEventsPaired ==
    /\ Count("AnimationEnd") <= Count("AnimationBegin")
    /\ ~hasList => Count("AnimationBegin") = Count("AnimationEnd")

\* How many times the event e was triggered so far.
Occurrences(e) == Cardinality({i \in 1..Len(events) : events[i] = e})

\* C23: for every ZoomToFit request there are never more ZoomEnd events
\* with its target, margin, duration_ms and easing than ZoomBegin events
\* with them, and once no CameraMoveList is left there are as many: every
\* ZoomBegin has had its own ZoomEnd.
C23_ZoomEventsPaired ==
    \A z \in ZoomRequests :
        /\ Occurrences(ZoomEnd(z.target, z.margin, z.duration_ms, z.easing))
               <= Occurrences(ZoomBegin(z.target, z.margin, z.duration_ms,
                                        z.easing))
        /\ ~hasList =>
               Occurrences(ZoomBegin(z.target, z.margin, z.duration_ms,
                                     z.easing))
                   = Occurrences(ZoomEnd(z.target, z.margin, z.duration_ms,
                                         z.easing))

(* The order in which a queue is processed. *)

\* CameraMoveBegin and CameraMoveEnd of each of these moves, in order.
MoveEvents(plan) ==
    [i \in 1..(2 * Len(plan)) |->
        IF i % 2 = 1 THEN CameraMoveBegin(plan[(i + 1) \div 2])
        ELSE CameraMoveEnd(plan[i \div 2])]

\* The latest request put a queue on the camera with no ZoomAnimationMarker
\* and the host has not touched the queue or the camera since.
PlainQueue ==
    /\ req.kind \in {"play", "insert"}
    /\ ~edited
    /\ ~marker.present

\* What on_play_animation triggers for the latest request.
Begun == IF req.kind = "play" THEN <<AnimationBegin>> ELSE <<>>

\* The moves of the latest request that have been popped.
Popped == SubSeq(req.plan, 1, Len(req.plan) - Len(moves))

\* C24: moves are processed strictly in sequence. There is one MoveState, it
\* is InProgress only for the front move, and a frame never lengthens the
\* queue: it pops at most the front move, and only when it found the move
\* InProgress and brought t to 1. For a queue without ZoomAnimationMarker the
\* events are CameraMoveBegin(m1), CameraMoveEnd(m1), CameraMoveBegin(m2), ...
\* in queue order: while the queue is on the camera, the events since the
\* request are those of the popped moves, plus the CameraMoveBegin of the
\* front move once it is InProgress; the frame that finds the queue empty
\* adds the single AnimationEnd and removes the queue.
C24_StrictlySequential ==
    /\ []((hasList /\ PlainQueue) =>
            /\ Len(moves) <= Len(req.plan)
            /\ moves = SubSeq(req.plan, Len(req.plan) - Len(moves) + 1,
                              Len(req.plan))
            /\ state.kind = "InProgress" => moves # <<>>
            /\ Since = Begun \o MoveEvents(Popped) \o
                           (IF state.kind = "InProgress"
                            THEN <<CameraMoveBegin(Head(moves))>> ELSE <<>>))
    /\ []((~hasList /\ PlainQueue /\ req.listed /\ nticks > 0
             /\ events[Len(events)] = AnimationEnd) =>
            Since = Begun \o MoveEvents(req.plan) \o <<AnimationEnd>>)
    /\ [][Frame =>
            /\ Len(moves') <= Len(moves)
            /\ moves' # moves =>
                   /\ moves' = Tail(moves)
                   /\ state.kind = "InProgress"
                   /\ state.elapsed_ms < Head(moves).duration_ms
                   /\ \E dt \in Deltas :
                          /\ state.elapsed_ms + dt >= Head(moves).duration_ms
                          /\ cam' = Interpolated(
                                 cam, [state EXCEPT !.elapsed_ms = @ + dt],
                                 Head(moves))
            /\ (hasList /\ moves = <<>> /\ ~marker.present) =>
                   /\ events' = Append(events, AnimationEnd)
                   /\ ~hasList']_vars

\* A three-move queue has been processed to its end.
C24_Witness ==
    /\ ~hasList
    /\ PlainQueue
    /\ Len(req.plan) = 3
    /\ nticks >= 7
    /\ Since = Begun \o MoveEvents(req.plan) \o <<AnimationEnd>>

(* A queue inserted from an observer of the completion event. *)

\* The latest CameraMoveList was inserted by the host's observer of the
\* completion event.
Chained == req.kind = "chain"

\* C25: the empty-queue frame removes CameraMoveList (and the
\* ZoomAnimationMarker) before it triggers AnimationEnd or ZoomEnd, so a
\* CameraMoveList that an observer of that event inserts survives the frame:
\* it is on the camera, Ready and whole, right after the event, with the
\* marker and the SmoothnessStash of the finished queue gone; the following
\* frames process its moves in order and complete it with AnimationEnd.
C25_RemovalBeforeCompletionEvent ==
    /\ (Chained /\ nticks = 0) =>
           /\ hasList
           /\ moves = req.plan
           /\ state = Ready
           /\ ~marker.present
           /\ ~stash.present
           /\ req.mark = Len(events)
           /\ events[req.mark].type \in {"AnimationEnd", "ZoomEnd"}
    /\ (Chained /\ hasList) =>
           /\ moves = SubSeq(req.plan, Len(req.plan) - Len(moves) + 1,
                             Len(req.plan))
           /\ Since = MoveEvents(Popped) \o
                          (IF state.kind = "InProgress"
                           THEN <<CameraMoveBegin(Head(moves))>> ELSE <<>>)
    /\ (Chained /\ ~hasList) =>
           /\ nticks > 2 * Len(req.plan)
           /\ Since = MoveEvents(req.plan) \o <<AnimationEnd>>

\* A two-move queue inserted on ZoomEnd has been processed to its end.
C25_Witness ==
    /\ Chained
    /\ ~hasList
    /\ Len(req.plan) = 2
    /\ events[req.mark].type = "ZoomEnd"
    /\ events[Len(events)] = AnimationEnd

(* The pose a move ends on. *)

\* C26: the frame that brings a move to t = 1 writes the move's focus and
\* radius; it writes the pitch target after its unwrapping, which is the
\* move's pitch up to whole turns; and it writes start_yaw plus the wrapped
\* yaw difference, which is the move's yaw up to whole turns, at least -PI
\* and below PI away from start_yaw, and the move's yaw itself when that is
\* less than PI away from start_yaw. The frames before it write the same
\* unwrapped differences scaled by the eased t.
C26_PoseOnFinalFrame ==
    [][(Interpolating /\ Frame) =>
          LET m == Head(moves)
              params == OrbitalParams(m)
              yaw_diff == WrapYaw(YawDiffRaw)
          IN  IF moves' = Tail(moves)
              THEN /\ cam'.target_focus = m.focus
                   /\ cam'.target_radius = params[3]
                   /\ cam'.target_pitch =
                          PitchTarget(params[2], state.start_pitch)
                   /\ SameAngle(cam'.target_pitch, params[2])
                   /\ cam'.target_yaw = state.start_yaw + yaw_diff
                   /\ SameAngle(cam'.target_yaw, params[1])
                   /\ -PI <= cam'.target_yaw - state.start_yaw
                   /\ cam'.target_yaw - state.start_yaw < PI
                   /\ Abs(YawDiffRaw) < PI => cam'.target_yaw = params[1]
              ELSE LET t_interp ==
                           Ease(m.easing,
                                Factor(state'.elapsed_ms, m.duration_ms))
                   IN  /\ cam'.target_yaw =
                              MulAdd(yaw_diff, t_interp, state.start_yaw)
                       /\ cam'.target_pitch =
                              MulAdd(PitchDiff, t_interp, state.start_pitch)]_vars

\* The move from yaw 3 to yaw -3 and from focus (4, 0, 0) to (0, 4, -4) has
\* ended: the camera is at the move's focus, radius and pitch, and at yaw 5.
C26_Witness ==
    /\ req.plan = <<OrbitA, OrbitB, OrbitC>>
    /\ ~edited
    /\ hasList
    /\ moves = <<OrbitC>>
    /\ state.kind = "Ready"
    /\ force_update
    /\ cam.target_focus = FocusB
    /\ cam.target_radius = 4
    /\ cam.target_pitch = -1
    /\ cam.target_yaw = 5

(* The interval of the binary search. *)

\* calculate_fit has set up its search.
Searching == calc.pc \in {"iterate", "center", "evaluate"}

\* a <= b, false of NaN as in IEEE 754.
XLe(a, b) == a # NAN /\ b # NAN /\ a <= b

\* C27: with R the object radius, the interval of the binary search stays
\* within [0.1 R, 100 R], with 0.1 R as calculate_fit computes it; every
\* candidate is its midpoint and lies in it; an iteration replaces exactly
\* one bound by the candidate, the lower one when the candidate has no bounds
\* or its margin is at most the target margin, the upper one when the margin
\* exceeds the target; the lower bound never decreases and the upper never
\* increases; and the radius returned lies in [0.1 R, 100 R]. None of it
\* reads the radius of the camera.
C27_SearchInterval ==
    /\ []((Searching \/ (FitDone /\ calc.result.some)) =>
            /\ calc.object_radius \div 10 <= calc.min_radius
            /\ calc.min_radius <= calc.max_radius
            /\ calc.max_radius <= 100 * calc.object_radius)
    /\ [](AtCandidate =>
            /\ calc.min_radius <= calc.test_radius
            /\ calc.test_radius <= calc.max_radius
            /\ calc.test_radius = (calc.min_radius + calc.max_radius) \div 2)
    /\ []((FitDone /\ calc.result.some) =>
            /\ calc.object_radius \div 10 <= calc.result.value[1]
            /\ calc.result.value[1] <= 100 * calc.object_radius)
    /\ [][Searching =>
            /\ calc'.min_radius >= calc.min_radius
            /\ calc'.max_radius <= calc.max_radius
            /\ calc'.object_radius = calc.object_radius]_vars
    /\ [][calc.pc # "evaluate" =>
            (Searching => /\ calc'.min_radius = calc.min_radius
                          /\ calc'.max_radius = calc.max_radius)]_vars
    /\ [][calc.pc = "evaluate" =>
            LET bounds == BoundsAt(calc, ZoomMarginMultiplier(calc.margin))
                margins == Constraining(bounds.value)
                lower == /\ calc'.min_radius = calc.test_radius
                         /\ calc'.max_radius = calc.max_radius
                upper == /\ calc'.max_radius = calc.test_radius
                         /\ calc'.min_radius = calc.min_radius
            IN  /\ lower \/ upper
                /\ ~bounds.some => lower
                /\ (bounds.some /\ XLe(margins[1], margins[2])) => lower
                /\ (bounds.some /\ XLt(margins[2], margins[1])) => upper]_vars

\* A search has returned after candidates with too small and with too
\* large a margin moved both ends of its interval.
C27_Witness ==
    /\ FitDone
    /\ calc.result.some
    /\ calc.object_radius > 0
    /\ calc.min_radius > calc.object_radius \div 10
    /\ calc.max_radius < 100 * calc.object_radius
    /\ \E i \in ValidTried : tried[i].radius = calc.max_radius
    /\ \E i \in ValidTried : tried[i].radius = calc.min_radius

(* A target without extent. *)

\* Every point of the call coincides with geometric_center.
Degenerate == ObjectRadius(calc.points, calc.geometric_center) = 0

\* C28: when every point coincides with geometric_center, calculate_fit
\* searches with a positive object radius in place of 0: the interval it
\* starts from has min_radius < max_radius, and every candidate radius is
\* positive.
C28_DegenerateFallback ==
    Degenerate =>
        /\ Searching => calc.object_radius > 0
        /\ (calc.pc = "iterate" /\ calc.iteration = 0) =>
               calc.min_radius < calc.max_radius
        /\ AtCandidate => calc.test_radius > 0

(* The time a queue still needs. *)

RECURSIVE Later(_, _)
\* The durations of the moves from the i-th on, added up.
Later(ms, i) ==
    IF i > Len(ms) THEN 0 ELSE ms[i].duration_ms + Later(ms, i + 1)

\* C29: remaining_time_ms of the CameraMoveList on the camera is 0 for an
\* empty queue, whatever the state; otherwise it is the durations of the
\* moves behind the front one plus, when the list is Ready, the duration of
\* the front move and, when it is InProgress, that duration less the elapsed
\* time, or 0 if more has elapsed. A frame never increases it, and removes
\* the list only when it is 0.
C29_RemainingTime ==
    /\ [](hasList =>
            LET remaining == RemainingTimeMs(moves, state)
                front == Head(moves).duration_ms
            IN  /\ remaining >= 0
                /\ moves = <<>> => remaining = 0
                /\ (moves # <<>> /\ state.kind = "Ready") =>
                       remaining = front + Later(moves, 2)
                /\ (moves # <<>> /\ state.kind = "InProgress"
                       /\ state.elapsed_ms <= front) =>
                       remaining = front - state.elapsed_ms + Later(moves, 2)
                /\ (moves # <<>> /\ state.kind = "InProgress"
                       /\ state.elapsed_ms > front) =>
                       remaining = Later(moves, 2))
    /\ [][(Frame /\ hasList) =>
            IF hasList'
            THEN RemainingTimeMs(moves', state')
                     <= RemainingTimeMs(moves, state)
            ELSE RemainingTimeMs(moves, state) = 0]_vars
    /\ [][(Frame /\ Interpolating) =>
            RemainingTimeMs(moves', state') < RemainingTimeMs(moves, state)]_vars

\* Half of the second of three 100 ms moves has elapsed: 150 ms remain.
C29_Witness ==
    /\ hasList
    /\ req.plan = <<OrbitA, OrbitB, OrbitC>>
    /\ moves = <<OrbitB, OrbitC>>
    /\ state.kind = "InProgress"
    /\ state.elapsed_ms = 50
    /\ RemainingTimeMs(moves, state) = 150

(* The iterations of the per-frame zoom convergence. *)

\* C30: a camera carries the ZoomToFitComponent only while its
\* iteration_count is below max_iterations: the frame that brings the count
\* to max_iterations removes the component, whatever the projection and
\* whether or not corners are behind the camera, and the count never exceeds
\* max_iterations.
C30_GivesUpAtMaxIterations ==
    /\ zoom_state.present =>
           zoom_state.iteration_count < zoom_config.max_iterations
    /\ zoom_state.iteration_count <= zoom_config.max_iterations

====
